---- MODULE Spec2Model ----
(***************************************************************************)
(* A model of the POML document core of atlas-foundry/poml-go-sdk          *)
(* (src/poml/parser.go): the Document with its typed slices and its        *)
(* ordered Elements handle list, the Add / Builder appends, the Mutate     *)
(* pass with its Mutator operations and the reindex pass, the parse /      *)
(* encode / parse round trip of the root's children and trivia, the parse  *)
(* of a whole text from its tokens (with its failures), Validate, the      *)
(* payload view of a handle, DumpFile over the files it touches, and the   *)
(* ConverterRegistry (src/poml/parser_test.go) under concurrent callers.   *)
(*                                                                         *)
(* Conventions.                                                            *)
(*  - An element ID "el-<n>" is modelled by the number n; the empty ID ""  *)
(*    is NoID (0).                                                         *)
(*  - Go slices are 0-based, TLA+ sequences 1-based: the payload a handle  *)
(*    with Index i names is slice[i + 1].                                  *)
(*  - A payload carries, besides its Body, the history field src: the ID   *)
(*    of the handle that was created together with it.  No operation of    *)
(*    the program reads src; the properties use it to tell payloads apart. *)
(***************************************************************************)
EXTENDS Integers, Sequences, FiniteSets, TLC

\* ---------------------------------------------------------------- bounds

\* Element IDs a Document hands out: el-1 .. el-MaxID.
MaxID == 3
\* Mutator calls the visitor makes during one visit.
MaxOps == 2

\* ---------------------------------------------------------- element types

NoID == 0
rootParentID == "root"

ElementTypes ==
    {"meta", "role", "task", "input", "document", "style", "human_msg",
     "assistant_msg", "system_msg", "tool_definition", "tool_request",
     "tool_response", "tool_result", "tool_error", "output_schema",
     "output_format", "audio", "video", "hint", "example", "content_part",
     "object", "runtime", "image", "diagram", "unknown"}

\* The typed slice of Document that backs each element type ("none": the
\* singleton fields Meta / Role / Schema and unknown elements, Index -1).
SliceOf(t) ==
    CASE t = "task" -> "Tasks"
      [] t = "input" -> "Inputs"
      [] t = "document" -> "Documents"
      [] t = "style" -> "Styles"
      [] t = "hint" -> "Hints"
      [] t = "example" -> "Examples"
      [] t = "content_part" -> "ContentParts"
      [] t = "output_format" -> "OutFormats"
      [] t \in {"human_msg", "assistant_msg", "system_msg"} -> "Messages"
      [] t = "tool_definition" -> "ToolDefs"
      [] t = "tool_request" -> "ToolReqs"
      [] t = "tool_response" -> "ToolResps"
      [] t = "tool_result" -> "ToolResults"
      [] t = "tool_error" -> "ToolErrors"
      [] t = "runtime" -> "Runtimes"
      [] t = "audio" -> "Audios"
      [] t = "video" -> "Videos"
      [] t = "object" -> "Objects"
      [] t = "image" -> "Images"
      [] t = "diagram" -> "Diagrams"
      [] OTHER -> "none"

SliceNames ==
    {"Tasks", "Inputs", "Documents", "Styles", "Hints", "Examples",
     "ContentParts", "OutFormats", "Messages", "ToolDefs", "ToolReqs",
     "ToolResps", "ToolResults", "ToolErrors", "Runtimes", "Audios",
     "Videos", "Objects", "Images", "Diagrams"}

\* The element types the model's documents are built from: a kind every
\* Mutator operation handles (task), a kind stored in a typed slice that
\* Remove and ReplaceBody have no case for (hint), a singleton (role) and
\* unknown elements.
Kinds == {"task", "hint", "role", "unknown"}

\* The element types that, besides Kinds, the model's parsed texts hold:
\* the kinds that are accepted under two tag spellings and the tool calls.
ParseKinds ==
    {"document", "tool_definition", "object", "assistant_msg",
     "tool_request", "tool_response", "tool_result", "tool_error"}

\* The typed slices the model's documents grow; the Document's other slices
\* stay empty and are left out of the state.
ModelSlices == {SliceOf(t) : t \in Kinds \cup ParseKinds} \ {"none"}

AddBodies == {"a"}
NewBodies == {"n"}
ReplaceBodies == {"r"}
RawTexts == {"<extra/>"}

\* ------------------------------------------------------------- sequences

RemoveAt(s, i) == SubSeq(s, 1, i - 1) \o SubSeq(s, i + 1, Len(s))

InsertAt(s, pos, e) == SubSeq(s, 1, pos - 1) \o <<e>> \o SubSeq(s, pos, Len(s))

\* The 1-based position of the first handle with the given ID; 0 when none.
IndexOfID(elems, id) ==
    IF \E i \in 1..Len(elems) : elems[i].ID = id
    THEN CHOOSE i \in 1..Len(elems) :
            /\ elems[i].ID = id
            /\ \A j \in 1..(i - 1) : elems[j].ID # id
    ELSE 0

\* -------------------------------------------------------------- Document

\* Meta: the id / version / owner fields under <meta>.
MetaValue(id, version, owner) == [ID |-> id, Version |-> version, Owner |-> owner]

\* Meta{}: the zero value.
NoMeta == MetaValue("", "", "")

\* Document{}: the zero value.
EmptyDocument ==
    [Meta |-> NoMeta, Role |-> "", Schema |-> "",
     Slices |-> [s \in ModelSlices |-> <<>>],
     Elements |-> <<>>, nextID |-> 0]

\* A typed slice of the Document.
SliceSeq(d, name) == IF name \in DOMAIN d.Slices THEN d.Slices[name] ELSE <<>>

\* A typed payload: Body, the message Role ("" outside Messages) and src.
Payload(body, role, src) == [Body |-> body, Role |-> role, src |-> src]

\* The kinds whose payload has an ID and a Name (ToolRequest, ToolResponse,
\* ToolResult, ToolError) or a Name (ToolDefinition).
ToolKinds ==
    {"tool_definition", "tool_request", "tool_response", "tool_result", "tool_error"}

\* A payload of a tool kind.
ToolPayload(id, name, body, src) ==
    [ID |-> id, Name |-> name, Body |-> body, Role |-> "", src |-> src]

\* The ID the next newElement call on d hands out.
NextNewID(d) == IF d.nextID = 0 THEN 1 ELSE d.nextID

\* newElement: the handle, and the Document with its counter advanced.
newElement(d, t, idx, name, raw) ==
    LET id == NextNewID(d)
    IN [el |-> [Type |-> t, Index |-> idx, Name |-> name, RawXML |-> raw,
                ID |-> id, Parent |-> rootParentID,
                Leading |-> <<>>, Trailing |-> <<>>],
        d |-> [d EXCEPT !.nextID = id + 1]]

\* reindex: one walk over Elements with one counter per typed slice; a
\* handle's Index becomes the number of earlier handles of its slice.
\* Handles of meta / role / output_schema / unknown are left as they are.
reindex(d) ==
    [d EXCEPT !.Elements =
        [i \in 1..Len(d.Elements) |->
            IF SliceOf(d.Elements[i].Type) = "none"
            THEN d.Elements[i]
            ELSE [d.Elements[i] EXCEPT !.Index =
                    Cardinality({j \in 1..(i - 1) :
                        SliceOf(d.Elements[j].Type) = SliceOf(d.Elements[i].Type)})]]]

\* freshID: the ID, and the Document with its counter advanced.
freshID(d) == [id |-> d.nextID, d |-> [d EXCEPT !.nextID = d.nextID + 1]]

hasSchema(d) == d.Schema # ""

\* The fixed kind order of defaultElements for the typed slices that come
\* before and after the schema section.
DefaultBeforeSchema ==
    <<"task", "input", "document", "style", "hint", "example", "content_part",
      "output_format", "message", "tool_definition", "tool_request",
      "tool_response", "tool_result", "tool_error">>

DefaultAfterSchema == <<"runtime", "audio", "video", "object", "image", "diagram">>

\* The element type defaultElements gives the i-th payload (1-based) of a
\* group: a message's type follows its Role.
DefaultType(d, g, i) ==
    IF g = "message"
    THEN (CASE SliceSeq(d, "Messages")[i].Role = "assistant" -> "assistant_msg"
            [] SliceSeq(d, "Messages")[i].Role = "system" -> "system_msg"
            [] OTHER -> "human_msg")
    ELSE g

GroupSlice(g) == IF g = "message" THEN "Messages" ELSE SliceOf(g)

\* The <<type, index>> pairs of one group, in slice order.
GroupPairs(d, g) ==
    [i \in 1..Len(SliceSeq(d, GroupSlice(g))) |-> <<DefaultType(d, g, i), i - 1>>]

RECURSIVE GroupsPairs(_, _)
GroupsPairs(d, gs) ==
    IF gs = <<>> THEN <<>>
    ELSE GroupPairs(d, Head(gs)) \o GroupsPairs(d, Tail(gs))

\* defaultElements: a canonical ordering of the known fields, every handle
\* made by newElement (so the Document's counter advances).
defaultElements(d) ==
    LET pairs ==
            (IF d.Meta # NoMeta THEN <<(<<"meta", -1>>)>> ELSE <<>>)
            \o (IF d.Role # "" THEN <<(<<"role", -1>>)>> ELSE <<>>)
            \o GroupsPairs(d, DefaultBeforeSchema)
            \o (IF hasSchema(d) THEN <<(<<"output_schema", -1>>)>> ELSE <<>>)
            \o GroupsPairs(d, DefaultAfterSchema)
        first == NextNewID(d)
    IN [els |-> [i \in 1..Len(pairs) |->
                    [Type |-> pairs[i][1], Index |-> pairs[i][2], Name |-> "",
                     RawXML |-> "", ID |-> first + i - 1,
                     Parent |-> rootParentID,
                     Leading |-> <<>>, Trailing |-> <<>>]],
        d |-> IF pairs = <<>> THEN d
              ELSE [d EXCEPT !.nextID = first + Len(pairs)]]

\* resolveOrderWithFallback: the recorded handle list when asked for and
\* present, else the canonical one.
resolveOrderWithFallback(d, preserve) ==
    IF preserve /\ Len(d.Elements) > 0
    THEN [els |-> d.Elements, d |-> d]
    ELSE defaultElements(d)

resolveOrder(d) == resolveOrderWithFallback(d, TRUE)

\* --------------------------------------------------------------- Mutator

\* The element types Mutator.Remove has a slice case for.
RemoveSliceCases ==
    {"task", "input", "document", "style", "output_format", "human_msg",
     "assistant_msg", "system_msg", "tool_definition", "tool_request",
     "tool_response", "runtime", "image"}

\* The element types Mutator.ReplaceBody has a slice case for.
ReplaceBodySliceCases ==
    {"task", "input", "style", "output_format", "human_msg", "assistant_msg",
     "system_msg", "tool_response", "image"}

InRange(d, el) ==
    /\ SliceOf(el.Type) # "none"
    /\ el.Index >= 0
    /\ el.Index < Len(SliceSeq(d, SliceOf(el.Type)))

\* Mutator.ReplaceBody without its modified flag: the Document afterwards.
\* (A style's Body stands for Outputs[0].Body; the model's styles have one
\* output.)
ReplaceBody(d, el, body) ==
    CASE el.Type = "role" -> [d EXCEPT !.Role = body]
      [] el.Type = "output_schema" -> [d EXCEPT !.Schema = body]
      [] el.Type \in ReplaceBodySliceCases ->
            IF InRange(d, el)
            THEN [d EXCEPT !.Slices[SliceOf(el.Type)][el.Index + 1].Body = body]
            ELSE d
      [] OTHER -> d

\* A Remove that leaves the payload where it is.
KeepPayload(d, el) == d

\* The payload half of Mutator.Remove: the switch on el.Type.
RemovePayload(d, el) ==
    CASE el.Type = "role" -> [d EXCEPT !.Role = ""]
      [] el.Type = "meta" -> [d EXCEPT !.Meta = NoMeta]
      [] el.Type = "output_schema" -> [d EXCEPT !.Schema = ""]
      [] el.Type \in RemoveSliceCases ->
            IF InRange(d, el)
            THEN [d EXCEPT !.Slices[SliceOf(el.Type)] = RemoveAt(@, el.Index + 1)]
            ELSE d
      [] OTHER -> d

\* The handle half of Mutator.Remove: the first handle with el's ID goes.
RemoveHandle(d, el) ==
    LET i == IndexOfID(d.Elements, el.ID)
    IN IF i = 0 THEN d ELSE [d EXCEPT !.Elements = RemoveAt(@, i)]

\* Mutator.Remove without its modified flag.
Remove(d, el) == RemoveHandle(RemovePayload(d, el), el)

\* Where insertElement splices: right after the handle with after's ID, at
\* the end when there is none (1-based position of the new handle).
InsertPosAfter(elems, after) ==
    LET i == IndexOfID(elems, after.ID)
    IN IF i = 0 THEN Len(elems) + 1 ELSE i + 1

\* insertElement, with its closing reindex.
insertElement(d, after, newEl) ==
    LET f == IF newEl.ID = NoID THEN freshID(d) ELSE [id |-> newEl.ID, d |-> d]
        e1 == [newEl EXCEPT !.ID = f.id,
                            !.Parent = IF @ = "" THEN after.Parent ELSE @]
    IN reindex([f.d EXCEPT !.Elements =
                    InsertAt(@, InsertPosAfter(f.d.Elements, after), e1)])

\* The element types with an Insert...After method.
InsertAfterTypes == {"task", "input", "document", "style"}

\* An Insert...After that puts the payload at the front of its slice.
InsertAfterFront(d, t, after, body) ==
    LET sl == SliceOf(t)
        d1 == [d EXCEPT !.Slices[sl] = <<Payload(body, "", NextNewID(d))>> \o @]
        ne == newElement(d1, t, 0, "", "")
    IN insertElement(ne.d, after, ne.el)

\* InsertTaskAfter / InsertInputAfter / InsertDocumentAfter /
\* InsertStyleAfter: append the payload to its slice, make the handle with
\* Index len - 1, splice it in after `after`.
InsertAfter(d, t, after, body) ==
    LET sl == SliceOf(t)
        d1 == [d EXCEPT !.Slices[sl] = Append(@, Payload(body, "", NextNewID(d)))]
        ne == newElement(d1, t, Len(d1.Slices[sl]) - 1, "", "")
    IN insertElement(ne.d, after, ne.el)

\* Where InsertBefore splices: at the handle with before's ID, at the end
\* when there is none.
InsertPosBefore(elems, before) ==
    LET i == IndexOfID(elems, before.ID)
    IN IF i = 0 THEN Len(elems) + 1 ELSE i

\* Mutator.InsertBefore without its modified flag, with its reindex.
InsertBefore(d, before, newEl) ==
    LET f == IF newEl.ID = NoID THEN freshID(d) ELSE [id |-> newEl.ID, d |-> d]
        e1 == [newEl EXCEPT !.ID = f.id]
    IN reindex([f.d EXCEPT !.Elements =
                    InsertAt(@, InsertPosBefore(f.d.Elements, before), e1)])

\* An Element literal as a caller of InsertBefore writes it:
\* Element{Type: ElementUnknown, RawXML: raw}.
UnknownLiteral(raw) ==
    [Type |-> "unknown", Index |-> 0, Name |-> "", RawXML |-> raw, ID |-> NoID,
     Parent |-> "", Leading |-> <<>>, Trailing |-> <<>>]

\* The payload a handle names through its type's slice ("none" when the
\* handle has no slice or its Index is out of range).
SlicePayload(d, el) ==
    IF InRange(d, el) THEN SliceSeq(d, SliceOf(el.Type))[el.Index + 1] ELSE "none"

\* The field of ElementPayload that payloadFor sets for an element type.
PayloadField(t) ==
    CASE t = "meta" -> "Meta"
      [] t = "role" -> "Role"
      [] t = "task" -> "Task"
      [] t = "input" -> "Input"
      [] t = "document" -> "DocRef"
      [] t = "style" -> "Style"
      [] t = "audio" -> "Audio"
      [] t = "video" -> "Video"
      [] t = "output_format" -> "OutputFormat"
      [] t = "hint" -> "Hint"
      [] t = "example" -> "Example"
      [] t = "content_part" -> "ContentPart"
      [] t = "object" -> "Object"
      [] t = "image" -> "Image"
      [] t \in {"human_msg", "assistant_msg", "system_msg"} -> "Message"
      [] t = "tool_definition" -> "ToolDef"
      [] t = "tool_request" -> "ToolReq"
      [] t = "tool_response" -> "ToolResp"
      [] t = "tool_result" -> "ToolResult"
      [] t = "tool_error" -> "ToolError"
      [] t = "output_schema" -> "Schema"
      [] t = "runtime" -> "Runtime"
      [] t = "diagram" -> "Diagram"
      [] t = "unknown" -> "Raw"
      [] OTHER -> "none"

\* ElementPayload{}: no field set.
NoPayload == [field |-> "none", to |-> "none"]

\* payloadFor: the one field it sets, and what the pointer in it points to.
\* The receiver is a Document value, so &d.Meta, &d.Role and &d.Schema
\* point into payloadFor's copy of the Document ("copy"), while
\* &d.Tasks[i] points into the slice's array, which the copy shares with
\* the Document ("slice").  Raw is a string ("value"), set to el.RawXML:
\* with an empty RawXML the payload has no field set.
payloadFor(d, e) ==
    CASE e.Type \in {"meta", "role"} -> [field |-> PayloadField(e.Type), to |-> "copy"]
      [] e.Type = "output_schema" ->
            IF hasSchema(d) THEN [field |-> "Schema", to |-> "copy"] ELSE NoPayload
      [] e.Type = "unknown" ->
            IF e.RawXML # "" THEN [field |-> "Raw", to |-> "value"] ELSE NoPayload
      [] OTHER ->
            IF InRange(d, e) THEN [field |-> PayloadField(e.Type), to |-> "slice"]
            ELSE NoPayload

\* The Document after the visitor has written a body through the pointer
\* of the payload it was handed (payload.Task.Body = body): a write into
\* the slice's array is a write into the Document, a write into the copy
\* is not.
EditPayload(d, e, body) ==
    IF payloadFor(d, e).to = "slice"
    THEN [d EXCEPT !.Slices[SliceOf(e.Type)][e.Index + 1].Body = body]
    ELSE d

\* ----------------------------------------------------------------- files

\* The destination DumpFile is called with.
Path == "out.poml"

\* A DumpFile that writes where it was told to.
tmpPathSame(path) == path

\* tmp := path + ".tmp"
tmpPath(path) == path \o ".tmp"

Paths == {Path, Path \o ".tmp"}

\* A path without a file, and a file with what was written to it.
NoFile == [exists |-> FALSE, chunks |-> <<>>]
File(chunks) == [exists |-> TRUE, chunks |-> chunks]

\* What the destination held before, when it was there.
OldFile == File(<<[k |-> "raw", tag |-> "", body |-> "", text |-> "old",
                   attrs |-> [id |-> "", version |-> "", owner |-> "", name |-> ""]]>>)

\* ------------------------------------------------------ ConverterRegistry

\* strings.ToLower on the format names of the model.
ToLower(s) ==
    CASE s = "A" -> "a"
      [] s = "B" -> "b"
      [] OTHER -> s

converterKey(from, to) == ToLower(from) \o "->" \o ToLower(to)

\* The converters goroutines register (basicConverter{from, to, fn}), and
\* the nil Converter.
Converters ==
    {[id |-> "c1", from |-> "a", to |-> "b"],
     [id |-> "c2", from |-> "A", to |-> "B"],
     [id |-> "c3", from |-> "a->b", to |-> "c"],
     [id |-> "c4", from |-> "a", to |-> "b->c"]}

NilConverter == [id |-> "nil", from |-> "", to |-> ""]

\* The from / to pairs goroutines ask Convert for.
Conversions == {<<"a", "B">>, <<"a", "b->c">>}

\* NewConverterRegistry: an unlocked mutex and an empty map.
NewConverterRegistry ==
    [mu |-> [writer |-> "", readers |-> {}], converters |-> <<>>]

\* The goroutines that share the registry.
Procs == {"g1", "g2", "g3"}

\* A goroutine that has not called yet.
NoCall ==
    [op |-> "", pc |-> "ready", conv |-> NilConverter, ask |-> <<"", "">>,
     key |-> "", ret |-> "", list |-> {}]

\* mu.Lock() / mu.RLock() can return for goroutine p.
CanLock(mu, p) == mu.writer = "" /\ mu.readers = {}

CanRLock(mu, p) == mu.writer = ""

\* ----------------------------------------------------------------- state

VARIABLES
    doc,        \* the Document
    pc,         \* "idle", or "visiting" while Mutate's visitor runs
    snapshot,   \* Mutate's copy of the handle list
    cur,        \* the 1-based position in snapshot of the handle being visited
    modified,   \* Mutator.modified
    nops,       \* Mutator calls made so far in the current visit
    ret,        \* what the last Mutate or parse returned: "none", "nil" or the error
    begin,      \* history: the IDs the pass's order held when it began
    visited,    \* history: the IDs the visitor was invoked with, in order
    input,      \* the text given to the parser: the pieces between <poml> and
                \* </poml>, or the tokens of the whole text
    opts,       \* the ParseOptions and EncodeOptions in use
    out,        \* what EncodeWithOptions wrote, and whether it returned an error
    doc2,       \* the Document parsed back from out
    issues,     \* what the last Validate returned: its issues, <<>> for nil
    fs,         \* the files: for each path whether it exists and what it holds
    reg,        \* a ConverterRegistry: its mutex and its converters map
    calls       \* for each goroutine its call on reg: where it is, what it returned

\* The variables of the Add / Mutate machine, and those of parse / encode.
mutVars == <<snapshot, cur, modified, nops, ret, begin, visited>>
rtVars == <<input, opts, out, doc2, issues>>

ioVars == <<fs, reg, calls>>

vars == <<doc, pc, snapshot, cur, modified, nops, ret, begin, visited,
          input, opts, out, doc2, issues, fs, reg, calls>>

\* How many more IDs the model lets the Document hand out.
IDsLeft(d) == MaxID + 1 - NextNewID(d)

IDsOf(elems) == [i \in 1..Len(elems) |-> elems[i].ID]

\* The zero values of ParseOptions / EncodeOptions, and nothing written.
NoOpts ==
    [PreserveWhitespace |-> FALSE, Validate |-> FALSE,
     PreserveOrder |-> FALSE, PreserveWS |-> FALSE]
NoOut == [err |-> FALSE, chunks |-> <<>>]

\* No Mutate pass has run.
MutInit ==
    /\ snapshot = <<>>
    /\ cur = 0
    /\ modified = FALSE
    /\ nops = 0
    /\ ret = "none"
    /\ begin = <<>>
    /\ visited = <<>>

\* Nothing has been parsed or encoded.
RTInit ==
    /\ input = <<>>
    /\ opts = <<>>
    /\ out = <<>>
    /\ doc2 = <<>>
    /\ issues = <<>>

\* A program that touches no file, makes no registry and starts no
\* goroutine.
IOInit ==
    /\ fs = <<>>
    /\ reg = <<>>
    /\ calls = <<>>

\* A program that starts from Document{} and builds it with Add calls.
Init ==
    /\ doc = EmptyDocument
    /\ pc = "idle"
    /\ MutInit
    /\ RTInit
    /\ IOInit

\* The typed appends: AddTask / AddInput (Builder.Task / .Input / .Hint, the
\* decoder's branch for the tag): the payload goes to the end of its slice,
\* the handle, with Index len - 1, to the end of Elements.
AddSlice(d, t, body) ==
    LET sl == SliceOf(t)
        d1 == [d EXCEPT !.Slices[sl] = Append(@, Payload(body, "", NextNewID(d)))]
        ne == newElement(d1, t, Len(d1.Slices[sl]) - 1, "", "")
    IN [ne.d EXCEPT !.Elements = Append(@, ne.el)]

\* AddRole: the role body is set and a role handle appended.
AddRole(d, body) ==
    LET ne == newElement([d EXCEPT !.Role = body], "role", -1, "", "")
    IN [ne.d EXCEPT !.Elements = Append(@, ne.el)]

\* Builder.Raw: an unknown handle that carries its raw XML.
AddRaw(d, raw) ==
    LET ne == newElement(d, "unknown", -1, "", raw)
    IN [ne.d EXCEPT !.Elements = Append(@, ne.el)]

Add(t) ==
    /\ pc = "idle"
    /\ IDsLeft(doc) >= 1
    /\ \E body \in AddBodies, raw \in RawTexts :
        doc' = (CASE t = "role" -> AddRole(doc, body)
                  [] t = "unknown" -> AddRaw(doc, raw)
                  [] OTHER -> AddSlice(doc, t, body))
    /\ UNCHANGED <<pc, snapshot, cur, modified, nops, ret, begin, visited>>
    /\ UNCHANGED rtVars
    /\ UNCHANGED ioVars

\* A loop that ranged over the live handle list instead of the snapshot.
LoopElemsLive(snap, d) == d.Elements

\* The elements Mutate's loop ranges over: the snapshot taken at its start
\* (elems := append([]Element(nil), d.resolveOrder()...)).
LoopElems(snap, d) == snap

\* Mutate, up to the first call of the visitor: the snapshot of
\* resolveOrder() is taken; with an empty snapshot Mutate returns nil.
MutateBegin ==
    /\ pc = "idle"
    /\ IDsLeft(doc) >= Len(resolveOrder(doc).els) - Len(doc.Elements)
    /\ LET ro == resolveOrder(doc)
       IN /\ doc' = ro.d
          /\ snapshot' = ro.els
          /\ begin' = IDsOf(ro.els)
          /\ IF Len(ro.els) = 0
             THEN /\ pc' = "idle"
                  /\ cur' = 0
                  /\ ret' = "nil"
                  /\ visited' = <<>>
             ELSE /\ pc' = "visiting"
                  /\ cur' = 1
                  /\ ret' = ret
                  /\ visited' = <<LoopElems(ro.els, ro.d)[1].ID>>
    /\ modified' = FALSE
    /\ nops' = 0
    /\ UNCHANGED rtVars
    /\ UNCHANGED ioVars

\* The handle the visitor was called with: the snapshot's copy, whose Index
\* is the one the handle had when the pass began.
el == snapshot[cur]

InVisit == pc = "visiting" /\ nops < MaxOps

VisitFrame ==
    /\ UNCHANGED <<pc, snapshot, cur, ret, begin, visited>>
    /\ UNCHANGED rtVars
    /\ UNCHANGED ioVars

\* The visitor calls m.ReplaceBody(el, body).
VisitReplaceBody ==
    /\ InVisit
    /\ \E body \in ReplaceBodies : doc' = ReplaceBody(doc, el, body)
    /\ modified' = TRUE
    /\ nops' = nops + 1
    /\ VisitFrame

\* The visitor calls m.Remove(el).
VisitRemove ==
    /\ InVisit
    /\ doc' = Remove(doc, el)
    /\ modified' = TRUE
    /\ nops' = nops + 1
    /\ VisitFrame

\* The visitor calls m.InsertTaskAfter(el, body) / m.InsertInputAfter(el, ..).
VisitInsertAfter(t) ==
    /\ InVisit
    /\ IDsLeft(doc) >= 1
    /\ \E body \in NewBodies : doc' = InsertAfter(doc, t, el, body)
    /\ nops' = nops + 1
    /\ UNCHANGED modified
    /\ VisitFrame

\* The visitor calls m.InsertBefore(el, Element{Type: ElementUnknown, RawXML: raw}).
VisitInsertBefore ==
    /\ InVisit
    /\ IDsLeft(doc) >= 1
    /\ \E raw \in RawTexts : doc' = InsertBefore(doc, el, UnknownLiteral(raw))
    /\ modified' = TRUE
    /\ nops' = nops + 1
    /\ VisitFrame

\* The visitor returns nil: Mutate reindexes when the Mutator was marked
\* modified, and goes on to the next handle of its loop, or returns nil.
VisitReturn ==
    /\ pc = "visiting"
    /\ doc' = IF modified THEN reindex(doc) ELSE doc
    /\ modified' = FALSE
    /\ nops' = 0
    /\ IF cur < Len(LoopElems(snapshot, doc'))
       THEN /\ cur' = cur + 1
            /\ visited' = Append(visited, LoopElems(snapshot, doc')[cur + 1].ID)
            /\ UNCHANGED <<pc, ret>>
       ELSE /\ pc' = "idle"
            /\ ret' = "nil"
            /\ UNCHANGED <<cur, visited>>
    /\ UNCHANGED <<snapshot, begin>>
    /\ UNCHANGED rtVars
    /\ UNCHANGED ioVars

\* The visitor returns an error: Mutate returns it at once.
VisitReturnErr ==
    /\ pc = "visiting"
    /\ pc' = "idle"
    /\ ret' = "err"
    /\ nops' = 0
    /\ UNCHANGED <<doc, snapshot, cur, modified, begin, visited>>
    /\ UNCHANGED rtVars
    /\ UNCHANGED ioVars

\* The visitor builds the new element from the one it was handed, as in
\*   n := el; n.RawXML = raw; m.InsertBefore(el, n)
\* so the new element arrives with el's ID.  (The model lets the visitor do
\* so in a Document's first pass, while the list holds fewer than MaxID
\* handles.)
VisitInsertBeforeCopy ==
    /\ InVisit
    /\ ret = "none"
    /\ Len(doc.Elements) < MaxID
    /\ \E raw \in RawTexts : doc' = InsertBefore(doc, el, [el EXCEPT !.RawXML = raw])
    /\ modified' = TRUE
    /\ nops' = nops + 1
    /\ VisitFrame

Next ==
    \/ \E t \in Kinds : Add(t)
    \/ MutateBegin
    \/ VisitReplaceBody
    \/ VisitRemove
    \/ \E t \in InsertAfterTypes \cap Kinds : VisitInsertAfter(t)
    \/ VisitInsertBefore
    \/ VisitReturn
    \/ VisitReturnErr

Spec == Init /\ [][Next]_vars

\* The same program with a visitor that also hands InsertBefore elements
\* that carry an ID.
NextIB == Next \/ VisitInsertBeforeCopy

SpecIB == Init /\ [][NextIB]_vars

\* ---------------------------------------------------------------- encoder

\* The tag encodeElement writes a handle under: the canonical tag of its
\* type, or the alias recorded in Name for document / tool-definition /
\* object.
TagOf(h) ==
    CASE h.Type = "document" -> IF h.Name = "Document" THEN "Document" ELSE "document"
      [] h.Type = "tool_definition" -> IF h.Name = "tool" THEN "tool" ELSE "tool-definition"
      [] h.Type = "object" -> IF h.Name = "Object" THEN "Object" ELSE "object"
      [] h.Type = "human_msg" -> "human-msg"
      [] h.Type = "assistant_msg" -> "assistant-msg"
      [] h.Type = "system_msg" -> "system-msg"
      [] h.Type = "content_part" -> "cp"
      [] h.Type = "image" -> "img"
      [] h.Type = "output_schema" -> "output-schema"
      [] h.Type = "output_format" -> "output-format"
      [] h.Type = "tool_request" -> "tool-request"
      [] h.Type = "tool_response" -> "tool-response"
      [] h.Type = "tool_result" -> "tool-result"
      [] h.Type = "tool_error" -> "tool-error"
      [] OTHER -> h.Type

EncodeError == [tag |-> "error", content |-> "index out of range"]

\* The switch of encodeElement: what is written for a handle, trivia aside.
\* A singleton is written from the Document's field, a typed handle from
\* its slice at Index (an error when Index is out of range), an unknown
\* handle as its raw XML.
EncodeBody(d, h) ==
    CASE h.Type = "meta" -> [tag |-> "meta", content |-> d.Meta]
      [] h.Type = "role" -> [tag |-> "role", content |-> d.Role]
      [] h.Type = "output_schema" -> [tag |-> "output-schema", content |-> d.Schema]
      [] h.Type = "unknown" -> [tag |-> "raw", content |-> h.RawXML]
      [] OTHER -> IF InRange(d, h)
                  THEN [tag |-> TagOf(h), content |-> SlicePayload(d, h)]
                  ELSE EncodeError

\* --------------------------------------------------------------- Validate

\* strings.TrimSpace on the strings of the model.
TrimSpace(str) ==
    CASE str \in {" ", "\n", "\r\n"} -> ""
      [] str = " 1" -> "1"
      [] OTHER -> str

\* One entry of ValidationError.Details (Issues holds one sentence for each).
Issue(element, field, message) ==
    [Element |-> element, Field |-> field, Message |-> message]

RECURSIVE Flatten(_)
Flatten(seqs) == IF seqs = <<>> THEN <<>> ELSE Head(seqs) \o Flatten(Tail(seqs))

\* metaCount, roleCount, taskCount: counted over the handle list when it is
\* not empty, else taken from the fields; a meta or role that is set counts
\* as one when no handle of its kind was counted.
HandleCount(d, t) == Cardinality({i \in 1..Len(d.Elements) : d.Elements[i].Type = t})

metaCount(d) ==
    LET n == IF Len(d.Elements) > 0 THEN HandleCount(d, "meta") ELSE 0
    IN IF n = 0 /\ d.Meta # NoMeta THEN 1 ELSE n

roleCount(d) ==
    LET n == IF Len(d.Elements) > 0 THEN HandleCount(d, "role") ELSE 0
    IN IF n = 0 /\ TrimSpace(d.Role) # "" THEN 1 ELSE n

taskCount(d) ==
    IF Len(d.Elements) > 0 THEN HandleCount(d, "task") ELSE Len(SliceSeq(d, "Tasks"))

\* A check of the sections that returns at its first issue.
SectionFirstIssue(d) ==
    IF metaCount(d) = 0 THEN <<Issue("meta", "", "missing meta")>>
    ELSE IF roleCount(d) = 0 THEN <<Issue("role", "", "missing role")>>
    ELSE IF taskCount(d) = 0 THEN <<Issue("task", "", "missing task")>>
    ELSE <<>>

\* The section rules: meta, role and task are required, meta and role may
\* not repeat, and the three fields of meta must be filled.
SectionIssues(d) ==
    (IF metaCount(d) = 0 THEN <<Issue("meta", "", "missing meta")>> ELSE <<>>)
    \o (IF roleCount(d) = 0 THEN <<Issue("role", "", "missing role")>> ELSE <<>>)
    \o (IF taskCount(d) = 0 THEN <<Issue("task", "", "missing task")>> ELSE <<>>)
    \o (IF metaCount(d) > 1 THEN <<Issue("meta", "", "duplicate meta")>> ELSE <<>>)
    \o (IF roleCount(d) > 1 THEN <<Issue("role", "", "duplicate role")>> ELSE <<>>)
    \o (IF TrimSpace(d.Meta.ID) = "" THEN <<Issue("meta", "id", "missing id")>> ELSE <<>>)
    \o (IF TrimSpace(d.Meta.Version) = ""
        THEN <<Issue("meta", "version", "missing version")>> ELSE <<>>)
    \o (IF TrimSpace(d.Meta.Owner) = ""
        THEN <<Issue("meta", "owner", "missing owner")>> ELSE <<>>)

\* for _, doc := range d.Documents: src is required (the model keeps a
\* DocRef's src as the payload's Body).
DocumentIssues(d) ==
    LET docs == SliceSeq(d, "Documents")
    IN Flatten([i \in 1..Len(docs) |->
            IF TrimSpace(docs[i].Body) = ""
            THEN <<Issue("document", "src", "missing src")>> ELSE <<>>])

\* toolNames: the trimmed, non-empty names of the tool definitions.
toolNames(d) ==
    LET tds == SliceSeq(d, "ToolDefs")
    IN {TrimSpace(tds[i].Name) : i \in 1..Len(tds)} \ {""}

\* for _, td := range d.ToolDefs: a name is required and may not repeat.
ToolDefIssues(d) ==
    LET tds == SliceSeq(d, "ToolDefs")
    IN Flatten([i \in 1..Len(tds) |->
            LET name == TrimSpace(tds[i].Name)
            IN (IF name = ""
                THEN <<Issue("tool_definition", "name", "missing name")>> ELSE <<>>)
               \o (IF name # "" /\ \E j \in 1..(i - 1) : TrimSpace(tds[j].Name) = name
                   THEN <<Issue("tool_definition", "name", "duplicate name " \o name)>>
                   ELSE <<>>)])

\* toolReqs: the trimmed ids of the tool requests; an id maps to the name of
\* the first request that carries it.
toolReqIDs(d) ==
    LET trs == SliceSeq(d, "ToolReqs")
    IN {TrimSpace(trs[i].ID) : i \in 1..Len(trs)} \ {""}

toolReqName(d, id) ==
    LET trs == SliceSeq(d, "ToolReqs")
        first == CHOOSE i \in 1..Len(trs) :
                    /\ TrimSpace(trs[i].ID) = id
                    /\ \A j \in 1..(i - 1) : TrimSpace(trs[j].ID) # id
    IN TrimSpace(trs[first].Name)

\* for i, tr := range d.ToolReqs: id and name are required, the name must be
\* that of a tool definition, the id may not repeat.
ToolReqIssues(d) ==
    LET trs == SliceSeq(d, "ToolReqs")
    IN Flatten([i \in 1..Len(trs) |->
            LET id == TrimSpace(trs[i].ID)
                name == TrimSpace(trs[i].Name)
            IN (IF id = "" THEN <<Issue("tool_request", "id", "missing id")>> ELSE <<>>)
               \o (IF name = ""
                   THEN <<Issue("tool_request", "name", "missing name")>> ELSE <<>>)
               \o (IF name # "" /\ name \notin toolNames(d)
                   THEN <<Issue("tool_request", "name", "unknown tool-definition " \o name)>>
                   ELSE <<>>)
               \o (IF id # "" /\ \E j \in 1..(i - 1) : TrimSpace(trs[j].ID) = id
                   THEN <<Issue("tool_request", "id",
                                "duplicate id " \o id \o " (also used by "
                                    \o toolReqName(d, id) \o ")")>>
                   ELSE <<>>)])

\* A check of the name against the tool definitions alone.
NameReference(d, id, name, element) ==
    IF name # "" /\ name \notin toolNames(d)
    THEN <<Issue(element, "name", "unknown tool-definition " \o name)>> ELSE <<>>

\* validateToolReference: the name must be that of a tool definition; an id
\* must be that of a tool request, and then the two names, when both are
\* given, must agree.
validateToolReference(d, id, name, element) ==
    (IF name # "" /\ name \notin toolNames(d)
     THEN <<Issue(element, "name", "unknown tool-definition " \o name)>> ELSE <<>>)
    \o (CASE id = "" -> <<>>
          [] id # "" /\ id \notin toolReqIDs(d) ->
                <<Issue(element, "id", "missing tool-request for id " \o id)>>
          [] OTHER ->
                IF name # "" /\ toolReqName(d, id) # "" /\ name # toolReqName(d, id)
                THEN <<Issue(element, "name", "mismatched tool for id " \o id)>>
                ELSE <<>>)

\* for i, tr := range d.ToolResps / d.ToolResults / d.ToolErrors: id and
\* name are required, then validateToolReference.
ToolRefIssues(d, element) ==
    LET rs == SliceSeq(d, SliceOf(element))
    IN Flatten([i \in 1..Len(rs) |->
            LET id == TrimSpace(rs[i].ID)
                name == TrimSpace(rs[i].Name)
            IN (IF id = "" THEN <<Issue(element, "id", "missing id")>> ELSE <<>>)
               \o (IF name = "" THEN <<Issue(element, "name", "missing name")>> ELSE <<>>)
               \o validateToolReference(d, id, name, element)])

\* if d.hasSchema() && strings.TrimSpace(d.Schema.Body) == "" && no attrs.
SchemaIssues(d) ==
    IF hasSchema(d) /\ TrimSpace(d.Schema) = ""
    THEN <<Issue("output_schema", "", "missing schema content")>> ELSE <<>>

\* for i, h := range d.Hints / d.Examples / d.ContentParts / d.Objects: a
\* body is required (the model keeps no data attribute for an object).
BodyIssues(d, element, message) ==
    LET ps == SliceSeq(d, SliceOf(element))
    IN Flatten([i \in 1..Len(ps) |->
            IF TrimSpace(ps[i].Body) = ""
            THEN <<Issue(element, "", message)>> ELSE <<>>])

\* Validate: every rule is evaluated, in this order, and the issues are
\* collected; the result is <<>> for nil.  (The rules on inputs, styles,
\* images and diagrams range over slices that stay empty in the model.)
Validate(d) ==
    SectionIssues(d)
    \o DocumentIssues(d)
    \o ToolDefIssues(d)
    \o ToolReqIssues(d)
    \o ToolRefIssues(d, "tool_response")
    \o ToolRefIssues(d, "tool_result")
    \o ToolRefIssues(d, "tool_error")
    \o SchemaIssues(d)
    \o BodyIssues(d, "hint", "missing body")
    \o BodyIssues(d, "example", "missing body")
    \o BodyIssues(d, "content_part", "missing body")
    \o BodyIssues(d, "object", "missing data/body")

\* ------------------------------------------------------ parse and encode

\* A piece of the text between <poml> and </poml>: a run of character data
\* or a comment, given by its spelling src in the text, or a child element,
\* given by its tag and body (src is its spelling when that matters).
\* The values of an element the model keeps beside its body: the id and
\* name attributes of a tool element, the id, version and owner children of
\* a meta element.
NoAttrs == [id |-> "", name |-> "", version |-> "", owner |-> ""]

Piece(k, tag, body, src) ==
    [k |-> k, tag |-> tag, body |-> body, src |-> src, attrs |-> NoAttrs]

\* An element with attributes or meta children.
AttrPiece(tag, attrs, body) == [Piece("elem", tag, body, "") EXCEPT !.attrs = attrs]

\* The spellings of character data the model's texts hold: a space, a CR LF
\* line end, and text written with entities.
CharDataSrc == {" ", "\r\n", "&lt;x/&gt;"}

CommentSrc == {"<!--c-->"}

\* The tags of the kinds with two spellings that the model's texts hold:
\* the second spelling of each kind, and both spellings of the assistant
\* message.
AliasTagsUsed == {"Document", "tool", "Object", "ai-msg", "assistant-msg"}

\* The pieces the model's texts are made of: character data, a comment, a
\* task, a role, an element with an unrecognized tag and the elements with
\* an alias tag.
InputPieces ==
    {Piece("chardata", "", "", s) : s \in CharDataSrc}
    \cup {Piece("comment", "", "", s) : s \in CommentSrc}
    \cup {Piece("elem", "task", "a", ""), Piece("elem", "role", "a", ""),
          Piece("elem", "x", "", "<x/>")}
    \cup {Piece("elem", t, "a", "") : t \in AliasTagsUsed}

\* Pieces in a text.
MaxPieces == 3

Texts == UNION {[1..n -> InputPieces] : n \in 0..MaxPieces}

\* string(t) for an xml.CharData token: the decoder has replaced entities
\* by the characters they stand for and a CR LF line end by LF.
CharDataText(src) ==
    CASE src = "\r\n" -> "\n"
      [] src = "&lt;x/&gt;" -> "<x/>"
      [] OTHER -> src

\* renderToken for an xml.Comment token: the comment written anew by an
\* xml.Encoder, <!-- and --> around its text.
renderToken(p) == p.src

\* The element type of decodePoml's switch on the start tag.
TypeOfTag(tag) ==
    CASE tag = "meta" -> "meta"
      [] tag = "role" -> "role"
      [] tag = "task" -> "task"
      [] tag = "input" -> "input"
      [] tag \in {"document", "Document"} -> "document"
      [] tag = "style" -> "style"
      [] tag = "hint" -> "hint"
      [] tag = "example" -> "example"
      [] tag = "cp" -> "content_part"
      [] tag = "human-msg" -> "human_msg"
      [] tag \in {"assistant-msg", "ai-msg"} -> "assistant_msg"
      [] tag = "system-msg" -> "system_msg"
      [] tag \in {"tool-definition", "tool"} -> "tool_definition"
      [] tag = "tool-request" -> "tool_request"
      [] tag = "tool-response" -> "tool_response"
      [] tag = "tool-result" -> "tool_result"
      [] tag = "tool-error" -> "tool_error"
      [] tag = "output-schema" -> "output_schema"
      [] tag = "output-format" -> "output_format"
      [] tag = "runtime" -> "runtime"
      [] tag = "img" -> "image"
      [] tag = "audio" -> "audio"
      [] tag = "video" -> "video"
      [] tag \in {"object", "Object"} -> "object"
      [] tag = "diagram" -> "diagram"
      [] OTHER -> "unknown"

\* msg.Role as decodePoml sets it: the tag without "-msg", "assistant" for
\* ai-msg; "" for an element that is no message.
MsgRoleOfTag(tag) ==
    CASE tag = "human-msg" -> "human"
      [] tag \in {"assistant-msg", "ai-msg"} -> "assistant"
      [] tag = "system-msg" -> "system"
      [] OTHER -> ""

\* The name argument decodePoml gives newElement: t.Name.Local for the
\* kinds with an alias and for unknown elements, "" otherwise.
NameOfTag(tag) ==
    IF TypeOfTag(tag) \in {"document", "tool_definition", "object", "unknown"}
    THEN tag ELSE ""

\* consumeRaw: the element written anew, token by token, by an xml.Encoder;
\* an empty-element tag comes out as a start tag and an end tag.
consumeRaw(p) == IF p.src = "<x/>" THEN "<x></x>" ELSE p.src

\* decodePoml's loop state: the Document so far, lastElement (the 1-based
\* position of the handle it points to, 0 for nil) and pending.
DecodeStart == [doc |-> [EmptyDocument EXCEPT !.nextID = 1], last |-> 0, pending |-> <<>>]

\* case xml.CharData / case xml.Comment.
DecodeTrivia(st, p, preserveWS) ==
    IF ~preserveWS THEN st
    ELSE [st EXCEPT !.pending =
            Append(@, IF p.k = "comment" THEN renderToken(p) ELSE CharDataText(p.src))]

\* case xml.StartElement: the payload is stored, the handle made and
\* appended with the pending trivia as its Leading; the Trailing assignment
\* that follows reads pending after it has been emptied.
DecodeElement(st, p, preserveWS) ==
    LET leading == st.pending
        pending == <<>>
        t == TypeOfTag(p.tag)
        d == st.doc
        d1 == CASE t = "meta" ->
                        [d EXCEPT !.Meta = MetaValue(p.attrs.id, p.attrs.version, p.attrs.owner)]
                [] t = "role" -> [d EXCEPT !.Role = p.body]
                [] t = "output_schema" -> [d EXCEPT !.Schema = p.body]
                [] t = "unknown" -> d
                [] t \in ToolKinds ->
                        [d EXCEPT !.Slices[SliceOf(t)] =
                            Append(@, ToolPayload(p.attrs.id, p.attrs.name, p.body, NextNewID(d)))]
                [] OTHER -> [d EXCEPT !.Slices[SliceOf(t)] =
                                Append(@, Payload(p.body, MsgRoleOfTag(p.tag), NextNewID(d)))]
        idx == IF SliceOf(t) = "none" THEN -1 ELSE Len(SliceSeq(d1, SliceOf(t))) - 1
        ne == newElement(d1, t, idx, NameOfTag(p.tag),
                         IF t = "unknown" THEN consumeRaw(p) ELSE "")
        e == IF preserveWS THEN [ne.el EXCEPT !.Leading = leading] ELSE ne.el
        d2 == [ne.d EXCEPT !.Elements = Append(@, e)]
        d3 == IF preserveWS /\ st.last # 0 /\ pending # <<>>
              THEN [d2 EXCEPT !.Elements[st.last].Trailing = pending]
              ELSE d2
    IN [doc |-> d3, last |-> Len(d3.Elements), pending |-> <<>>]

\* A root close that let go of what is pending.
DecodeEndDrop(st, preserveWS) == st.doc

\* case xml.EndElement for </poml>: what is pending becomes the Trailing of
\* the last handle, when there is one.
DecodeEnd(st, preserveWS) ==
    IF preserveWS /\ st.last # 0 /\ st.pending # <<>>
    THEN [st.doc EXCEPT !.Elements[st.last].Trailing = st.pending]
    ELSE st.doc

RECURSIVE DecodeTokens(_, _, _)
DecodeTokens(st, toks, preserveWS) ==
    IF toks = <<>> THEN st
    ELSE DecodeTokens(IF Head(toks).k = "elem"
                      THEN DecodeElement(st, Head(toks), preserveWS)
                      ELSE DecodeTrivia(st, Head(toks), preserveWS),
                      Tail(toks), preserveWS)

\* A decodePoml that keeps trivia whatever ParseOptions say.
decodePomlKeep(toks, preserveWS) ==
    DecodeEnd(DecodeTokens(DecodeStart, toks, TRUE), TRUE)

\* decodePoml: the Document of the pieces between <poml> and </poml>.
decodePoml(toks, preserveWS) ==
    DecodeEnd(DecodeTokens(DecodeStart, toks, preserveWS), preserveWS)

\* ----------------------------------------------------- tokens of a text

\* A token of xml.Decoder: a start tag (with the attributes the model
\* keeps), an end tag, character data or a comment; "bad" stands for text
\* with malformed tag syntax, at which dec.Token() returns a syntax error.
Tok(k, tag, src) == [k |-> k, tag |-> tag, src |-> src, attrs |-> NoAttrs]
StartTok(tag, attrs) == [Tok("start", tag, "") EXCEPT !.attrs = attrs]
EndTok(tag) == Tok("end", tag, "")

\* The tokens of a body: text, or one nested element around text.
BodyTokens(body) ==
    CASE body = "" -> <<>>
      [] body = "<role>a</role>" ->
            <<StartTok("role", NoAttrs), Tok("chardata", "", "a"), EndTok("role")>>
      [] OTHER -> <<Tok("chardata", "", body)>>

\* The child elements of <meta>: one for each field that is given.
MetaChild(tag, text) ==
    IF text = "" THEN <<>>
    ELSE <<StartTok(tag, NoAttrs), Tok("chardata", "", text), EndTok(tag)>>

\* The tokens the decoder reads from the text of a piece.
PieceTokens(p) ==
    CASE p.k # "elem" -> <<Tok(p.k, "", p.src)>>
      [] p.k = "elem" /\ p.tag = "meta" ->
            <<StartTok("meta", NoAttrs)>>
            \o MetaChild("id", p.attrs.id)
            \o MetaChild("version", p.attrs.version)
            \o MetaChild("owner", p.attrs.owner)
            \o <<EndTok("meta")>>
      [] p.k = "elem" /\ p.src = "<x/>" -> <<StartTok("x", NoAttrs), EndTok("x")>>
      [] p.k = "elem" /\ p.src = "<x><task>a</task></x>" ->
            <<StartTok("x", NoAttrs), StartTok("task", NoAttrs),
              Tok("chardata", "", "a"), EndTok("task"), EndTok("x")>>
      [] OTHER -> <<StartTok(p.tag, p.attrs)>> \o BodyTokens(p.body) \o <<EndTok(p.tag)>>

\* The spelling of a token.
TokText(t) ==
    CASE t.k = "start" -> "<" \o t.tag \o ">"
      [] t.k = "end" -> "</" \o t.tag \o ">"
      [] OTHER -> t.src

RECURSIVE TokensText(_)
TokensText(toks) ==
    IF toks = <<>> THEN "" ELSE TokText(Head(toks)) \o TokensText(Tail(toks))

\* A read that takes the start tag and nothing after it.
ScanNone(toks, j, depth) == j - 1

\* The loop of consumeRaw (and of dec.DecodeElement): tokens are read until
\* the depth, 1 after the start tag, is back at 0; the result is the
\* position of the closing end tag, 0 when a read fails first (the text
\* ends, or its syntax is malformed).
RECURSIVE ScanElement(_, _, _)
ScanElement(toks, j, depth) ==
    IF j > Len(toks) \/ toks[j].k = "bad" THEN 0
    ELSE IF toks[j].k = "start" THEN ScanElement(toks, j + 1, depth + 1)
    ELSE IF toks[j].k = "end"
         THEN IF depth = 1 THEN j ELSE ScanElement(toks, j + 1, depth - 1)
    ELSE ScanElement(toks, j + 1, depth)

\* The text of the child element named tag among the children toks of
\* <meta>, "" without one.
ChildText(toks, tag) ==
    IF \E i \in 1..(Len(toks) - 1) :
            toks[i].k = "start" /\ toks[i].tag = tag /\ toks[i + 1].k = "chardata"
    THEN LET i == CHOOSE i \in 1..(Len(toks) - 1) :
                    toks[i].k = "start" /\ toks[i].tag = tag /\ toks[i + 1].k = "chardata"
         IN toks[i + 1].src
    ELSE ""

\* What dec.DecodeElement / consumeRaw makes of the element between the
\* start tag at i and its end tag at j: a known element with its attributes
\* and its inner XML as the body, a meta with the text of its children, an
\* unknown element with the text an xml.Encoder writes for its tokens.
ElementPiece(toks, i, j) ==
    LET inner == SubSeq(toks, i + 1, j - 1)
        tag == toks[i].tag
    IN CASE tag = "meta" ->
                AttrPiece(tag, [NoAttrs EXCEPT !.id = ChildText(inner, "id"),
                                               !.version = ChildText(inner, "version"),
                                               !.owner = ChildText(inner, "owner")], "")
         [] TypeOfTag(tag) = "unknown" ->
                Piece("elem", tag, "", TokensText(SubSeq(toks, i, j)))
         [] OTHER -> AttrPiece(tag, toks[i].attrs, TokensText(inner))

\* The results of a parse: the Document, and the error ("nil" for none,
\* "error" for an error without a type, else the Type of the POMLError).
Result(d, err) == [doc |-> d, err |-> err]

\* The loop of decodePoml over the tokens after <poml>, from position i.
\* When a read fails the Document built so far is returned with the error
\* (the decoder reports the end of the text inside an open element as a
\* syntax error).
RECURSIVE decodeLoop(_, _, _, _)
decodeLoop(st, toks, i, preserveWS) ==
    IF i > Len(toks) THEN Result(st.doc, "decode_error")
    ELSE LET t == toks[i]
         IN CASE t.k = "bad" -> Result(st.doc, "decode_error")
              [] t.k \in {"chardata", "comment"} ->
                    decodeLoop(DecodeTrivia(st, t, preserveWS), toks, i + 1, preserveWS)
              [] t.k = "start" ->
                    LET j == ScanElement(toks, i + 1, 1)
                    IN IF j = 0 THEN Result(st.doc, "decode_error")
                       ELSE decodeLoop(DecodeElement(st, ElementPiece(toks, i, j), preserveWS),
                                       toks, j + 1, preserveWS)
              [] t.k = "end" /\ t.tag = "poml" -> Result(DecodeEnd(st, preserveWS), "nil")
              [] OTHER -> decodeLoop(st, toks, i + 1, preserveWS)

\* A parse that hands back what decodePoml returned beside its error.
KeepPartial(r) == r

\* What parseWithOptions returns when decodePoml returned an error.
DecodeFailed(r) == Result(EmptyDocument, r.err)

\* A parse that never validates.
NeverValidate(o) == FALSE

\* if opts.Validate.
ShouldValidate(o) == o.Validate

\* parseWithOptions: tokens are skipped up to the first start tag, which
\* must be poml; then decodePoml, then Validate when it is asked for.  Every
\* error is returned with Document{}.
RECURSIVE parseWithOptions(_, _, _)
parseWithOptions(toks, i, o) ==
    IF i > Len(toks) THEN Result(EmptyDocument, "error")
    ELSE IF toks[i].k = "bad" THEN Result(EmptyDocument, "decode_error")
    ELSE IF toks[i].k # "start" THEN parseWithOptions(toks, i + 1, o)
    ELSE IF toks[i].tag # "poml" THEN Result(EmptyDocument, "decode_error")
    ELSE LET r == decodeLoop(DecodeStart, toks, i + 1, o.PreserveWhitespace)
         IN IF r.err # "nil" THEN DecodeFailed(r)
            ELSE IF ShouldValidate(o) /\ Validate(r.doc) # <<>>
                 THEN Result(EmptyDocument, "validation_error")
                 ELSE r

\* What the encoder writes: text written as it is (io.WriteString), or an
\* element written by enc.EncodeElement under a tag from its payload.
RawChunk(text) ==
    [k |-> "raw", tag |-> "", body |-> "", text |-> text, attrs |-> NoAttrs]
ElemChunk(tag, body) ==
    [k |-> "elem", tag |-> tag, body |-> body, text |-> "", attrs |-> NoAttrs]

\* enc.EncodeElement on the payload of a handle: the fields of the payload
\* become the element's body, attributes and children.
PayloadChunk(h, b) ==
    CASE h.Type = "meta" ->
            [ElemChunk(b.tag, "") EXCEPT
                !.attrs = [NoAttrs EXCEPT !.id = b.content.ID,
                                          !.version = b.content.Version,
                                          !.owner = b.content.Owner]]
      [] h.Type \in ToolKinds ->
            [ElemChunk(b.tag, b.content.Body) EXCEPT
                !.attrs = [NoAttrs EXCEPT !.id = b.content.ID, !.name = b.content.Name]]
      [] SliceOf(h.Type) = "none" -> ElemChunk(b.tag, b.content)
      [] OTHER -> ElemChunk(b.tag, b.content.Body)

RawChunks(texts) == [i \in 1..Len(texts) |-> RawChunk(texts[i])]

\* encodeElement: Leading when PreserveWS, the element, Trailing when
\* PreserveWS.  An unknown handle without raw text returns before its
\* Trailing; a handle whose Index is out of range returns an error.
encodeElement(d, h, o) ==
    LET lead == IF o.PreserveWS /\ h.Leading # <<>> THEN RawChunks(h.Leading) ELSE <<>>
        trail == IF o.PreserveWS /\ h.Trailing # <<>> THEN RawChunks(h.Trailing) ELSE <<>>
        b == EncodeBody(d, h)
    IN CASE h.Type = "unknown" /\ h.RawXML = "" -> [err |-> FALSE, chunks |-> lead]
         [] h.Type = "unknown" /\ h.RawXML # "" ->
                [err |-> FALSE, chunks |-> lead \o <<RawChunk(h.RawXML)>> \o trail]
         [] h.Type # "unknown" /\ b = EncodeError -> [err |-> TRUE, chunks |-> lead]
         [] OTHER ->
                [err |-> FALSE,
                 chunks |-> lead
                    \o <<PayloadChunk(h, b)>>
                    \o trail]

\* The loop of encodeDocument: it returns at the first error.
RECURSIVE EncodeElements(_, _, _)
EncodeElements(d, hs, o) ==
    IF hs = <<>> THEN NoOut
    ELSE LET first == encodeElement(d, Head(hs), o)
             rest == EncodeElements(d, Tail(hs), o)
         IN IF first.err THEN first
            ELSE [err |-> rest.err, chunks |-> first.chunks \o rest.chunks]

\* encodeDocument, without the <poml> and </poml> it writes around.
encodeDocument(d, o) ==
    EncodeElements(d, resolveOrderWithFallback(d, o.PreserveOrder).els, o)

\* The tag of an element found in text that was written as it is.
RawElemTag(text) ==
    CASE text \in {"<x/>", "<x></x>"} -> "x"
      [] text = "<extra/>" -> "extra"
      [] OTHER -> ""

\* What xml.Decoder reads back from one chunk: the element, or, from raw
\* text, a comment, an element or character data.
LexChunk(c) ==
    CASE c.k = "elem" -> AttrPiece(c.tag, c.attrs, c.body)
      [] c.k = "raw" /\ c.text \in CommentSrc -> Piece("comment", "", "", c.text)
      [] c.k = "raw" /\ RawElemTag(c.text) # "" -> Piece("elem", RawElemTag(c.text), "", c.text)
      [] OTHER -> Piece("chardata", "", "", c.text)

Lex(chunks) == [i \in 1..Len(chunks) |-> LexChunk(chunks[i])]

\* Parse / ParseWithOptions of a text <poml> input </poml>.
InitRT ==
    /\ doc = EmptyDocument
    /\ pc = "source"
    /\ MutInit
    /\ IOInit
    /\ input \in Texts
    /\ opts = NoOpts
    /\ out = NoOut
    /\ doc2 = EmptyDocument
    /\ issues = <<>>

Parse ==
    /\ pc = "source"
    /\ \E pw \in BOOLEAN :
        /\ doc' = decodePoml(input, pw)
        /\ opts' = [opts EXCEPT !.PreserveWhitespace = pw]
    /\ pc' = "parsed"
    /\ UNCHANGED <<input, out, doc2, issues>>
    /\ UNCHANGED mutVars
    /\ UNCHANGED ioVars

\* EncodeWithOptions on the parsed Document (a value receiver: the
\* Document is not changed), without header and indentation.
Encode ==
    /\ pc = "parsed"
    /\ \E po \in BOOLEAN, ws \in BOOLEAN :
        LET o == [opts EXCEPT !.PreserveOrder = po, !.PreserveWS = ws]
        IN /\ opts' = o
           /\ out' = encodeDocument(doc, o)
    /\ pc' = "encoded"
    /\ UNCHANGED <<doc, input, doc2, issues>>
    /\ UNCHANGED mutVars
    /\ UNCHANGED ioVars

\* The written text is parsed again, with the ParseOptions of the first
\* parse.
Reparse ==
    /\ pc = "encoded"
    /\ ~out.err
    /\ doc2' = decodePoml(Lex(out.chunks), opts.PreserveWhitespace)
    /\ pc' = "reparsed"
    /\ UNCHANGED <<doc, input, opts, out, issues>>
    /\ UNCHANGED mutVars
    /\ UNCHANGED ioVars

NextRT == Parse \/ Encode \/ Reparse

SpecRT == InitRT /\ [][NextRT]_vars

\* ------------------------------------------------- parse of a whole text

\* A meta with its three fields.
CompleteMeta == [NoAttrs EXCEPT !.id = "m", !.version = "1", !.owner = "o"]

\* The pieces of the texts given to the parser as tokens: whitespace, a
\* complete meta, a role, a task, a task whose body holds a nested tag, an
\* unknown element around a nested task, and malformed tag syntax.
TokenPieces ==
    {Piece("chardata", "", "", " "),
     AttrPiece("meta", CompleteMeta, ""),
     Piece("elem", "role", "a", ""),
     Piece("elem", "task", "a", ""),
     Piece("elem", "task", "<role>a</role>", ""),
     Piece("elem", "x", "", "<x><task>a</task></x>"),
     Piece("bad", "", "", "<task")}

\* The tag of the first element of a text.
RootTags == {"poml", "prompt"}

\* The tokens of the text <root> pieces </root>.
WholeText(root, ps) ==
    <<StartTok(root, NoAttrs)>>
    \o Flatten([i \in 1..Len(ps) |-> PieceTokens(ps[i])])
    \o <<EndTok(root)>>

\* The texts: whole ones, and ones that end early.
TokenTexts ==
    UNION {{SubSeq(WholeText(root, ps), 1, n) : n \in 0..Len(WholeText(root, ps))} :
            root \in RootTags,
            ps \in UNION {[1..n -> TokenPieces] : n \in 0..MaxPieces}}

InitP ==
    /\ doc = EmptyDocument
    /\ pc = "source"
    /\ MutInit
    /\ IOInit
    /\ input \in TokenTexts
    /\ opts = NoOpts
    /\ out = NoOut
    /\ doc2 = EmptyDocument
    /\ issues = <<>>

\* ParseReaderWithOptions(text, ParseOptions{...}).
ParseText ==
    /\ pc = "source"
    /\ \E pw \in BOOLEAN, v \in BOOLEAN :
        LET o == [opts EXCEPT !.PreserveWhitespace = pw, !.Validate = v]
            r == parseWithOptions(input, 1, o)
        IN /\ opts' = o
           /\ doc' = r.doc
           /\ ret' = r.err
    /\ pc' = "parsed"
    /\ UNCHANGED <<input, out, doc2, issues>>
    /\ UNCHANGED <<snapshot, cur, modified, nops, begin, visited>>
    /\ UNCHANGED ioVars

\* doc.Walk(fn) with an fn that returns nil: fn is invoked with every
\* handle of resolveOrder(), in its order.  Walk has a value receiver: the
\* Document is not changed.
Walk ==
    /\ pc = "parsed"
    /\ ret = "nil"
    /\ visited' = IDsOf(resolveOrder(doc).els)
    /\ pc' = "walked"
    /\ UNCHANGED <<doc, snapshot, cur, modified, nops, ret, begin>>
    /\ UNCHANGED rtVars
    /\ UNCHANGED ioVars

NextP == ParseText \/ Walk

SpecP == InitP /\ [][NextP]_vars

\* ------------------------------------------------ validation of a text

\* A tool element with its id and name attributes.
ToolPiece(tag, id, name) == AttrPiece(tag, [NoAttrs EXCEPT !.id = id, !.name = name], "")

\* The pieces of the texts that are parsed and validated: a meta with and
\* without its owner, the sections, a tool definition t, tool requests with
\* and without a name, and responses, results and errors that name the
\* request's id and tool, another tool, or another id.
ValidatePieces ==
    {AttrPiece("meta", CompleteMeta, ""),
     AttrPiece("meta", [CompleteMeta EXCEPT !.owner = ""], ""),
     Piece("elem", "role", "a", ""),
     Piece("elem", "task", "a", ""),
     Piece("elem", "output-schema", "a", ""),
     ToolPiece("tool-definition", "", "t"),
     ToolPiece("tool-request", "1", "t"),
     ToolPiece("tool-request", "1", ""),
     ToolPiece("tool-response", "1", "t"),
     ToolPiece("tool-response", "1", "u"),
     ToolPiece("tool-response", "2", "u"),
     ToolPiece("tool-result", "1", "u"),
     ToolPiece("tool-result", "2", "u"),
     ToolPiece("tool-error", "1", "u"),
     ToolPiece("tool-error", "2", "u")}

ValidateTexts == UNION {[1..n -> ValidatePieces] : n \in 0..MaxPieces}

InitV ==
    /\ doc = EmptyDocument
    /\ pc = "source"
    /\ MutInit
    /\ IOInit
    /\ input \in ValidateTexts
    /\ opts = NoOpts
    /\ out = NoOut
    /\ doc2 = EmptyDocument
    /\ issues = <<>>

\* doc.Validate() on the parsed Document (a value receiver: the Document is
\* not changed).
CallValidate ==
    /\ pc = "parsed"
    /\ issues' = Validate(doc)
    /\ pc' = "validated"
    /\ UNCHANGED <<doc, input, opts, out, doc2>>
    /\ UNCHANGED mutVars
    /\ UNCHANGED ioVars

NextV == Parse \/ CallValidate

SpecV == InitV /\ [][NextV]_vars

\* ------------------------------------- validation after a Mutate pass

\* The texts of the sections: a complete meta, a role and a task, in any
\* number and order.
SectionTexts ==
    UNION {[1..n -> {AttrPiece("meta", CompleteMeta, ""),
                     Piece("elem", "role", "a", ""),
                     Piece("elem", "task", "a", "")}] : n \in 0..MaxPieces}

\* A program that has parsed a text (ParseStringFast) and goes on to
\* validate the Document, or to run Mutate passes on it first.
InitM ==
    /\ input \in SectionTexts
    /\ doc = decodePoml(input, FALSE)
    /\ pc = "idle"
    /\ MutInit
    /\ IOInit
    /\ opts = NoOpts
    /\ out = NoOut
    /\ doc2 = EmptyDocument
    /\ issues = <<>>

\* doc.Validate() between passes.
Revalidate ==
    /\ pc = "idle"
    /\ issues' = Validate(doc)
    /\ pc' = "validated"
    /\ UNCHANGED <<doc, input, opts, out, doc2>>
    /\ UNCHANGED mutVars
    /\ UNCHANGED ioVars

NextM ==
    \/ MutateBegin
    \/ VisitRemove
    \/ VisitReturn
    \/ VisitReturnErr
    \/ Revalidate

SpecM == InitM /\ [][NextM]_vars

\* ------------------------------ a Mutate pass with inserts, then a read

\* Payloads in a Document built from its fields.
MaxFields == 2

\* The sections a Document is built of here: tasks, a hint, a role and an
\* output-schema without content.
FieldPieces ==
    {Piece("elem", "task", "a", ""), Piece("elem", "task", "b", ""),
     Piece("elem", "hint", "a", ""), Piece("elem", "role", "a", ""),
     Piece("elem", "output-schema", "", "")}

FieldTexts == UNION {[1..n -> FieldPieces] : n \in 0..MaxFields}

\* A Document written as a struct literal with its typed fields only,
\*   Document{Role: .., Tasks: []Block{..}, Hints: []Hint{..}}
\* Elements is nil and nextID 0; no payload was made together with a handle.
FromFields(d) ==
    [d EXCEPT !.Elements = <<>>,
              !.nextID = 0,
              !.Slices = [sl \in DOMAIN d.Slices |->
                            [i \in 1..Len(d.Slices[sl]) |->
                                [d.Slices[sl][i] EXCEPT !.src = NoID]]]]

\* A program that has parsed a text, or has built a Document from its
\* fields (input is then empty), and goes on to a Mutate pass.
InitF ==
    /\ \/ /\ input \in FieldTexts
          /\ doc = decodePoml(input, FALSE)
       \/ /\ input = <<>>
          /\ doc \in {FromFields(decodePoml(t, FALSE)) : t \in FieldTexts}
    /\ pc = "idle"
    /\ MutInit
    /\ IOInit
    /\ opts = NoOpts
    /\ out = NoOut
    /\ doc2 = EmptyDocument
    /\ issues = <<>>

\* doc.Walk(fn) after a pass that returned nil, with a visitor that returns
\* nil (a value receiver: the handles made for a Document without a handle
\* list are those of the copy).
WalkAfter ==
    /\ pc = "idle"
    /\ ret = "nil"
    /\ visited' = IDsOf(resolveOrder(doc).els)
    /\ pc' = "walked"
    /\ UNCHANGED <<doc, snapshot, cur, modified, nops, ret, begin>>
    /\ UNCHANGED rtVars
    /\ UNCHANGED ioVars

\* doc.EncodeWithOptions(w, opts) after a pass that returned nil.
EncodeAfter ==
    /\ pc = "idle"
    /\ ret = "nil"
    /\ \E po \in BOOLEAN :
        LET o == [opts EXCEPT !.PreserveOrder = po]
        IN /\ opts' = o
           /\ out' = encodeDocument(doc, o)
    /\ pc' = "encoded"
    /\ UNCHANGED <<doc, input, doc2, issues>>
    /\ UNCHANGED mutVars
    /\ UNCHANGED ioVars

\* The body a visitor writes through the payload.
EditBodies == {"e"}

\* The visitor writes a body through the pointer of the payload it was
\* handed and calls m.MarkModified().
VisitEdit ==
    /\ InVisit
    /\ payloadFor(doc, el).to \in {"slice", "copy"}
    /\ \E body \in EditBodies : doc' = EditPayload(doc, el, body)
    /\ modified' = TRUE
    /\ nops' = nops + 1
    /\ VisitFrame

NextF ==
    \/ MutateBegin
    \/ VisitInsertAfter("task")
    \/ VisitEdit
    \/ VisitReturn
    \/ WalkAfter
    \/ EncodeAfter

SpecF == InitF /\ [][NextF]_vars

\* --------------------------------------------------------------- DumpFile

\* A program that has parsed a text, runs Mutate passes on the Document
\* and writes it with DumpFile(Path, opts); the destination is there
\* already, or not.
InitD ==
    /\ input \in UNION {[1..n -> {Piece("elem", "task", "a", ""),
                                   Piece("elem", "hint", "a", "")}] : n \in 0..MaxFields}
    /\ doc = decodePoml(input, FALSE)
    /\ pc = "idle"
    /\ MutInit
    /\ opts = NoOpts
    /\ out = NoOut
    /\ doc2 = EmptyDocument
    /\ issues = <<>>
    /\ fs \in {[f \in Paths |-> NoFile],
               [f \in Paths |-> IF f = Path THEN OldFile ELSE NoFile]}
    /\ reg = <<>>
    /\ calls = <<>>

DumpFrame ==
    /\ UNCHANGED <<doc, snapshot, cur, modified, nops, begin, visited>>
    /\ UNCHANGED <<input, out, doc2, issues>>
    /\ UNCHANGED <<reg, calls>>

\* f, err := os.Create(tmp): the file is made, or emptied; or the call
\* fails and DumpFile returns the error.
DumpCreate ==
    /\ pc = "idle"
    /\ \E po \in BOOLEAN : opts' = [opts EXCEPT !.PreserveOrder = po]
    /\ \E ok \in BOOLEAN :
        IF ok
        THEN /\ fs' = [fs EXCEPT ![tmpPath(Path)] = File(<<>>)]
             /\ pc' = "created"
             /\ UNCHANGED ret
        ELSE /\ pc' = "dumped"
             /\ ret' = "err"
             /\ UNCHANGED fs
    /\ DumpFrame

\* d.EncodeWithOptions(f, opts): the encoder writes through a buffer, so
\* when it returns an error, its own or one of the file, any prefix of the
\* text may have reached the file; DumpFile then returns the error.
DumpEncode ==
    /\ pc = "created"
    /\ LET e == encodeDocument(doc, opts)
       IN \E n \in 0..Len(e.chunks) :
            /\ fs' = [fs EXCEPT ![tmpPath(Path)] = File(SubSeq(e.chunks, 1, n))]
            /\ IF n = Len(e.chunks) /\ ~e.err
               THEN pc' = "encoded" /\ UNCHANGED ret
               ELSE pc' = "dumped" /\ ret' = "err"
    /\ UNCHANGED opts
    /\ DumpFrame

\* f.Close(): it succeeds, or DumpFile returns its error.
DumpClose ==
    /\ pc = "encoded"
    /\ \E ok \in BOOLEAN :
        IF ok THEN pc' = "closed" /\ UNCHANGED ret
        ELSE pc' = "dumped" /\ ret' = "err"
    /\ UNCHANGED <<fs, opts>>
    /\ DumpFrame

\* return os.Rename(tmp, path)
DumpRename ==
    /\ pc = "closed"
    /\ \E ok \in BOOLEAN :
        IF ok
        THEN /\ fs' = [f \in Paths |->
                        IF f = Path THEN fs[tmpPath(Path)]
                        ELSE IF f = tmpPath(Path) THEN NoFile ELSE fs[f]]
             /\ ret' = "nil"
        ELSE /\ ret' = "err"
             /\ UNCHANGED fs
    /\ pc' = "dumped"
    /\ UNCHANGED opts
    /\ DumpFrame

NextD ==
    \/ MutateBegin
    \/ VisitRemove
    \/ VisitReturn
    \/ VisitReturnErr
    \/ DumpCreate
    \/ DumpEncode
    \/ DumpClose
    \/ DumpRename

SpecD == InitD /\ [][NextD]_vars

\* ----------------------------------------- goroutines on one registry

\* A program whose goroutines share a new registry.
InitR ==
    /\ doc = EmptyDocument
    /\ pc = "idle"
    /\ MutInit
    /\ RTInit
    /\ fs = [f \in Paths |-> NoFile]
    /\ reg = NewConverterRegistry
    /\ calls = [p \in Procs |-> NoCall]

RegFrame ==
    /\ UNCHANGED <<doc, pc, fs>>
    /\ UNCHANGED mutVars
    /\ UNCHANGED rtVars

\* Goroutine p calls reg.Register(conv): a nil converter is refused at
\* once, else the key is made and the mutex asked for.
RegisterCall(p) ==
    /\ calls[p].pc = "ready"
    /\ \E conv \in Converters \cup {NilConverter} :
        calls' = [calls EXCEPT ![p] =
            IF conv = NilConverter
            THEN [NoCall EXCEPT !.op = "Register", !.pc = "done",
                                !.ret = "converter is nil"]
            ELSE [NoCall EXCEPT !.op = "Register", !.pc = "lock", !.conv = conv,
                                !.key = converterKey(conv.from, conv.to)]]
    /\ UNCHANGED reg
    /\ RegFrame

\* r.mu.Lock() returns.
RegisterLock(p) ==
    /\ calls[p].op = "Register"
    /\ calls[p].pc = "lock"
    /\ CanLock(reg.mu, p)
    /\ reg' = [reg EXCEPT !.mu.writer = p]
    /\ calls' = [calls EXCEPT ![p].pc = "check"]
    /\ RegFrame

\* if _, exists := r.converters[key]; exists { return ConverterExistsError }
\* (with the deferred Unlock).
RegisterCheck(p) ==
    /\ calls[p].op = "Register"
    /\ calls[p].pc = "check"
    /\ IF calls[p].key \in DOMAIN reg.converters
       THEN /\ calls' = [calls EXCEPT ![p].pc = "done", ![p].ret = "exists"]
            /\ reg' = [reg EXCEPT !.mu.writer = ""]
       ELSE /\ calls' = [calls EXCEPT ![p].pc = "store"]
            /\ UNCHANGED reg
    /\ RegFrame

\* r.converters[key] = conv; return nil (with the deferred Unlock).
RegisterStore(p) ==
    /\ calls[p].op = "Register"
    /\ calls[p].pc = "store"
    /\ reg' = [reg EXCEPT
            !.converters = [k \in DOMAIN @ \cup {calls[p].key} |->
                                IF k = calls[p].key THEN calls[p].conv ELSE @[k]],
            !.mu.writer = ""]
    /\ calls' = [calls EXCEPT ![p].pc = "done", ![p].ret = "nil"]
    /\ RegFrame

\* Goroutine p calls reg.List().
ListCall(p) ==
    /\ calls[p].pc = "ready"
    /\ calls' = [calls EXCEPT ![p] = [NoCall EXCEPT !.op = "List", !.pc = "rlock"]]
    /\ UNCHANGED reg
    /\ RegFrame

\* Goroutine p calls reg.Convert(ctx, from, to, input, opts).
ConvertCall(p) ==
    /\ calls[p].pc = "ready"
    /\ \E c \in Conversions :
        calls' = [calls EXCEPT ![p] =
            [NoCall EXCEPT !.op = "Convert", !.pc = "rlock", !.ask = c,
                           !.key = converterKey(c[1], c[2])]]
    /\ UNCHANGED reg
    /\ RegFrame

\* r.mu.RLock() returns, in List or in Convert.
RLock(p) ==
    /\ calls[p].pc = "rlock"
    /\ CanRLock(reg.mu, p)
    /\ reg' = [reg EXCEPT !.mu.readers = @ \cup {p}]
    /\ calls' = [calls EXCEPT ![p].pc = "rlocked"]
    /\ RegFrame

\* List under the read lock: one descriptor, in lower case, for each
\* converter of the map; the sorted slice it returns is given by their set.
ListRead(p) ==
    /\ calls[p].op = "List"
    /\ calls[p].pc = "rlocked"
    /\ calls' = [calls EXCEPT
            ![p].pc = "done",
            ![p].list = {<<ToLower(reg.converters[k].from), ToLower(reg.converters[k].to)>> :
                            k \in DOMAIN reg.converters}]
    /\ reg' = [reg EXCEPT !.mu.readers = @ \ {p}]
    /\ RegFrame

\* conv, ok := r.converters[key]; r.mu.RUnlock(); without a converter
\* Convert returns its error.
ConvertLookup(p) ==
    /\ calls[p].op = "Convert"
    /\ calls[p].pc = "rlocked"
    /\ IF calls[p].key \in DOMAIN reg.converters
       THEN calls' = [calls EXCEPT ![p].pc = "dispatch",
                                   ![p].conv = reg.converters[calls[p].key]]
       ELSE calls' = [calls EXCEPT ![p].pc = "done", ![p].ret = "no converter"]
    /\ reg' = [reg EXCEPT !.mu.readers = @ \ {p}]
    /\ RegFrame

\* return conv.Convert(ctx, input, opts): the result is that of the
\* converter found.
ConvertDispatch(p) ==
    /\ calls[p].op = "Convert"
    /\ calls[p].pc = "dispatch"
    /\ calls' = [calls EXCEPT ![p].pc = "done", ![p].ret = calls[p].conv.id]
    /\ UNCHANGED reg
    /\ RegFrame

NextR ==
    \E p \in Procs :
        \/ RegisterCall(p)
        \/ RegisterLock(p)
        \/ RegisterCheck(p)
        \/ RegisterStore(p)
        \/ ListCall(p)
        \/ ConvertCall(p)
        \/ RLock(p)
        \/ ListRead(p)
        \/ ConvertLookup(p)
        \/ ConvertDispatch(p)

SpecR == InitR /\ [][NextR]_vars

\* ---------------------------------------------------------------- claims

IDSet(elems) == {elems[i].ID : i \in 1..Len(elems)}

TypedHandle(h) == SliceOf(h.Type) # "none" /\ h.Index >= 0

\* A handle names its own payload: the one made together with it.
OwnPayload(d, h) == InRange(d, h) /\ SlicePayload(d, h).src = h.ID

\* C1 (re-index correctness): after a Mutate pass that completed, every
\* handle of Document.Elements with Index >= 0 names, through the typed
\* slice of its kind, the payload it was created with, never the payload of
\* another handle.
C1_ReindexCorrect ==
    (pc = "idle" /\ ret = "nil") =>
        \A i \in 1..Len(doc.Elements) :
            TypedHandle(doc.Elements[i]) => OwnPayload(doc, doc.Elements[i])

\* C2 (slot-index validity): whenever no Mutate pass is running (after
\* Add / Builder calls, and after Mutate has returned), every handle of
\* Document.Elements with Index >= 0 has Index < the length of its typed
\* slice, so encoding in preserved order meets no index out of range.
C2_SlotIndexValid ==
    pc = "idle" =>
        \A i \in 1..Len(doc.Elements) :
            /\ TypedHandle(doc.Elements[i]) => InRange(doc, doc.Elements[i])
            /\ EncodeBody(doc, doc.Elements[i]) # EncodeError

\* C3 (ID stability and uniqueness), the state part: no two handles of the
\* list share an ID, and every ID in the list was handed out by the counter
\* (it is below nextID).
C3_IDsUnique ==
    /\ \A i, j \in 1..Len(doc.Elements) :
            doc.Elements[i].ID = doc.Elements[j].ID => i = j
    /\ \A i \in 1..Len(doc.Elements) :
            doc.Elements[i].ID # NoID /\ doc.Elements[i].ID < NextNewID(doc)

\* C4 (insert-after placement): for a handle el of the list, an
\* Insert...After(el, p) puts a new handle with a fresh ID right after el,
\* the encoder then writes p at that place, and every handle that was there
\* before keeps its place relative to the others and what is written for it.
C4_InsertAfterPlacement ==
    [][ ((\E t \in InsertAfterTypes \cap Kinds : VisitInsertAfter(t))
            /\ IndexOfID(doc.Elements, el.ID) > 0)
        => LET i == IndexOfID(doc.Elements, el.ID)
               new == doc'.Elements[i + 1]
           IN /\ Len(doc'.Elements) = Len(doc.Elements) + 1
              /\ new.ID \notin IDSet(doc.Elements)
              /\ RemoveAt(IDsOf(doc'.Elements), i + 1) = IDsOf(doc.Elements)
              /\ EncodeBody(doc', new) # EncodeError
              /\ EncodeBody(doc', new).content.Body \in NewBodies
              /\ EncodeBody(doc', new).content.src = new.ID
              /\ \A j \in 1..Len(doc.Elements) :
                    EncodeBody(doc', doc'.Elements[IF j <= i THEN j ELSE j + 1])
                        = EncodeBody(doc, doc.Elements[j])
      ]_vars

\* The handle of the list with el's ID carries the Index el carries, and
\* that Index is in range.
IndexCurrent(d, h) ==
    /\ IndexOfID(d.Elements, h.ID) > 0
    /\ d.Elements[IndexOfID(d.Elements, h.ID)].Index = h.Index
    /\ InRange(d, h)

\* C5 (Remove, for every indexed kind): for a handle el of the list whose
\* kind is stored in a typed slice and whose Index is current, Remove(el)
\* and the re-index that follows delete el's payload from its slice (later
\* payloads shift down by one) and el from the list, and change no other
\* slice.
C5_RemoveEveryIndexedKind ==
    [][ (VisitRemove /\ IndexCurrent(doc, el))
        => LET D == reindex(doc')
               sl == SliceOf(el.Type)
           IN /\ SliceSeq(D, sl) = RemoveAt(SliceSeq(doc, sl), el.Index + 1)
              /\ \A o \in SliceNames \ {sl} : SliceSeq(D, o) = SliceSeq(doc, o)
              /\ IDsOf(D.Elements)
                    = RemoveAt(IDsOf(doc.Elements), IndexOfID(doc.Elements, el.ID))
      ]_vars

\* C6 (snapshot traversal): while a Mutate pass runs, the visitor has been
\* invoked with exactly the first cur handles of the order the pass began
\* with, once each and in that order; when the pass has returned nil it has
\* been invoked with all of them and with no other handle, whatever the
\* visitor removed or inserted.
C6_SnapshotTraversal ==
    /\ \A i, j \in 1..Len(begin) : begin[i] = begin[j] => i = j
    /\ pc = "visiting" =>
            /\ cur \in 1..Len(begin)
            /\ visited = SubSeq(begin, 1, cur)
    /\ (pc = "idle" /\ ret = "nil") => visited = begin

\* C6's case: a pass over two or more handles has returned nil after its
\* visitor removed a handle of the snapshot and inserted a new one.
C6_Witness ==
    /\ pc = "idle" /\ ret = "nil"
    /\ Len(begin) >= 2
    /\ visited = begin
    /\ \E i \in 1..Len(begin) : begin[i] \notin IDSet(doc.Elements)
    /\ \E id \in IDSet(doc.Elements) : \A i \in 1..Len(begin) : begin[i] # id

\* The kinds whose payload has a textual body.
BodyKinds ==
    {"role", "task", "input", "style", "output_format", "hint", "example",
     "content_part", "human_msg", "assistant_msg", "system_msg",
     "tool_response", "tool_result", "tool_error", "output_schema", "image",
     "audio", "video", "object"}

\* The textual body the Document holds for a handle.
BodyOf(d, h) ==
    CASE h.Type = "role" -> d.Role
      [] h.Type = "output_schema" -> d.Schema
      [] OTHER -> SlicePayload(d, h).Body

\* The Document with the body a handle names set to text and nothing else
\* changed.
WithBody(d, h, text) ==
    CASE h.Type = "role" -> [d EXCEPT !.Role = text]
      [] h.Type = "output_schema" -> [d EXCEPT !.Schema = text]
      [] OTHER -> [d EXCEPT !.Slices[SliceOf(h.Type)][h.Index + 1].Body = text]

\* C7 (ReplaceBody): for a handle el of the list whose kind has a textual
\* body, ReplaceBody(el, text) sets that body to text and changes nothing
\* else of the Document: the handle list, the ID counter and every other
\* payload stay as they were.
C7_ReplaceBodyFrame ==
    [][ (VisitReplaceBody /\ el.Type \in BodyKinds
            /\ (SliceOf(el.Type) # "none" => IndexCurrent(doc, el)))
        => \E text \in ReplaceBodies :
              /\ BodyOf(doc', el) = text
              /\ doc' = WithBody(doc, el, text)
      ]_vars

\* The root-level items of a sequence of pieces: a run of trivia by its
\* text, an element by its tag and body.
Items(ps) ==
    [i \in 1..Len(ps) |->
        IF ps[i].k = "elem" THEN <<"elem", ps[i].tag, ps[i].body>>
        ELSE <<ps[i].k, ps[i].src>>]

WhitespaceSrc == {" ", "\n", "\r\n"}

\* The text holds child elements, whitespace runs and comments only.
TriviaAndElements(ps) ==
    \A i \in 1..Len(ps) : ps[i].k = "chardata" => ps[i].src \in WhitespaceSrc

FidelityOn == opts.PreserveWhitespace /\ opts.PreserveOrder /\ opts.PreserveWS

\* C8 (exact round-trip): for a text whose root holds child elements,
\* whitespace runs and comments (a root with trivia and no element
\* included), parsing with fidelity on and encoding with PreserveOrder and
\* PreserveWS writes the root-level sequence of trivia and elements of the
\* text: nothing is dropped, duplicated or moved.
C8_ExactRoundTrip ==
    (pc = "encoded" /\ FidelityOn /\ TriviaAndElements(input))
        => /\ ~out.err
           /\ Items(Lex(out.chunks)) = Items(input)

\* What C9 compares of a Document: for every handle its kind, Index,
\* Leading, Trailing and payload.
HandleView(d) ==
    [i \in 1..Len(d.Elements) |->
        [Type |-> d.Elements[i].Type, Index |-> d.Elements[i].Index,
         Leading |-> d.Elements[i].Leading, Trailing |-> d.Elements[i].Trailing,
         payload |-> EncodeBody(d, d.Elements[i]).content]]

\* C9 (structural round-trip): for a Document parsed with fidelity on,
\* parsing what encoding it with PreserveOrder and PreserveWS wrote gives a
\* Document with the same sequence of handles (kind, Index, Leading,
\* Trailing) and the same payload for every handle.
C9_StructuralRoundTrip ==
    (pc = "reparsed" /\ FidelityOn) => HandleView(doc2) = HandleView(doc)

\* C10 (unknown-tag survival): whatever the encode options, what encoding
\* the parsed Document wrote holds the stored raw text of every unknown
\* handle, as it is stored.
C10_UnknownSurvives ==
    pc = "encoded" =>
        /\ ~out.err
        /\ \A i \in 1..Len(doc.Elements) :
                doc.Elements[i].Type = "unknown" =>
                    \E j \in 1..Len(out.chunks) :
                        out.chunks[j] = RawChunk(doc.Elements[i].RawXML)

\* The positions of the child elements in a sequence of pieces, and the
\* position of the k-th of them.
ElemIdx(ps) == {i \in 1..Len(ps) : ps[i].k = "elem"}

NthElem(ps, k) ==
    CHOOSE i \in ElemIdx(ps) : Cardinality({j \in ElemIdx(ps) : j < i}) = k - 1

\* The text of a run of character data or of a comment, as the decoder
\* hands it on.
TriviaText(p) == IF p.k = "comment" THEN renderToken(p) ELSE CharDataText(p.src)

\* The trivia of the pieces strictly between positions a and b.
TriviaBetween(ps, a, b) == [i \in 1..(b - a - 1) |-> TriviaText(ps[a + i])]

\* The trivia between the last child element and the root close tag.
TailTrivia(ps) ==
    TriviaBetween(ps, NthElem(ps, Cardinality(ElemIdx(ps))), Len(ps) + 1)

\* C11 (trailing trumps leading): with fidelity on, whitespace / comment
\* text between two consecutive child elements A and B is stored as A's
\* Trailing and not as B's Leading.
C11_TrailingTrumpsLeading ==
    (pc = "parsed" /\ opts.PreserveWhitespace) =>
        \A k \in 1..(Cardinality(ElemIdx(input)) - 1) :
            LET between == TriviaBetween(input, NthElem(input, k), NthElem(input, k + 1))
            IN between # <<>> =>
                /\ doc.Elements[k].Trailing = between
                /\ doc.Elements[k + 1].Leading = <<>>

\* What is written for a handle, its trivia aside.
ElementChunks(d, h) == encodeElement(d, h, NoOpts).chunks

\* The trivia before the root close tag is the Trailing of the last handle
\* and of no other handle.
TailStored ==
    LET n == Cardinality(ElemIdx(input))
    IN /\ Len(doc.Elements) = n
       /\ doc.Elements[n].Trailing = TailTrivia(input)
       /\ \A i \in 1..(n - 1) : doc.Elements[i].Trailing = <<>>

\* What was written ends with the last handle's element followed by the
\* trivia before the root close tag.
TailEmitted ==
    LET n == Cardinality(ElemIdx(input))
        tail == ElementChunks(doc, doc.Elements[n]) \o RawChunks(TailTrivia(input))
    IN /\ ~out.err
       /\ Len(out.chunks) >= Len(tail)
       /\ SubSeq(out.chunks, Len(out.chunks) - Len(tail) + 1, Len(out.chunks)) = tail

AliasTags ==
    {"document", "Document", "tool-definition", "tool", "object", "Object",
     "assistant-msg", "ai-msg"}

IsElemChunk(c) == c.k = "elem"

IsKnownElemPiece(p) == p.k = "elem" /\ TypeOfTag(p.tag) # "unknown"

\* C13 (alias preservation): an element of a kind with more than one tag
\* spelling, parsed and encoded in preserved order, is written under the
\* spelling it was parsed with.
C13_AliasPreserved ==
    (pc = "encoded" /\ opts.PreserveOrder) =>
        LET written == SelectSeq(out.chunks, IsElemChunk)
            known == SelectSeq(input, IsKnownElemPiece)
        IN /\ ~out.err
           /\ Len(written) = Len(known)
           /\ \A k \in 1..Len(known) :
                known[k].tag \in AliasTags => written[k].tag = known[k].tag

\* The depth of position i of a text: the start tags before it less the
\* end tags before it.
Depth(toks, i) ==
    Cardinality({j \in 1..(i - 1) : toks[j].k = "start"})
    - Cardinality({j \in 1..(i - 1) : toks[j].k = "end"})

\* The positions of the start tags of the direct children of the root.
ChildStarts(toks) == {i \in 1..Len(toks) : toks[i].k = "start" /\ Depth(toks, i) = 1}

\* The k-th smallest member of a set of positions.
NthOf(S, k) == CHOOSE i \in S : Cardinality({j \in S : j < i}) = k - 1

\* C14 (encounter order): after a successful parse the handle list holds
\* exactly one handle for each direct child tag of the root, known or
\* unknown, in text order; a tag nested inside a child gives no handle and
\* no typed payload; Walk visits the handles in that order.
C14_EncounterOrder ==
    (pc \in {"parsed", "walked"} /\ ret = "nil") =>
        LET kids == ChildStarts(input)
        IN /\ Len(doc.Elements) = Cardinality(kids)
           /\ \A k \in 1..Len(doc.Elements) :
                doc.Elements[k].Type = TypeOfTag(input[NthOf(kids, k)].tag)
           /\ \A sl \in ModelSlices :
                Len(doc.Slices[sl])
                    = Cardinality({i \in kids : SliceOf(TypeOfTag(input[i].tag)) = sl})
           /\ pc = "walked" => visited = IDsOf(doc.Elements)

\* A text with a nested tag in a known body and in an unknown subtree was
\* parsed and walked.
C14_Witness ==
    /\ pc = "walked"
    /\ Len(doc.Elements) = 2
    /\ \E i \in 1..Len(input) : input[i].k = "start" /\ Depth(input, i) = 2
                                    /\ input[i].tag = "task"
    /\ \E i \in 1..Len(input) : input[i].k = "start" /\ Depth(input, i) = 2
                                    /\ input[i].tag = "role"

\* What decodePoml had built when it returned.
Decoded == decodeLoop(DecodeStart, input, 2, opts.PreserveWhitespace)

\* C19 (no partial document on decode failure): when decoding fails
\* (malformed tag syntax, a text that ends before the root close tag, a
\* first tag that is not poml) the parse returns an error and the empty
\* Document: nothing decoded before the failure reaches the caller.
C19_NoPartialDocument ==
    (pc = "parsed" /\ ret \in {"error", "decode_error"}) => doc = EmptyDocument

\* Decoding failed after a child had been decoded.
C19_Witness ==
    /\ pc = "parsed"
    /\ ret = "decode_error"
    /\ input # <<>> /\ input[1].tag = "poml"
    /\ Decoded.doc.Elements # <<>>
    /\ doc = EmptyDocument

\* C20 (validation layered on decode): for a text that decodes, a parse
\* with Validate = true fails, with an error of type validation_error and
\* the empty Document, exactly when Validate reports an issue on the decoded
\* Document, and returns the decoded Document otherwise; with Validate =
\* false it returns the decoded Document.
C20_ValidateOnDecode ==
    (pc = "parsed" /\ input # <<>> /\ input[1].tag = "poml" /\ Decoded.err = "nil") =>
        IF opts.Validate /\ Validate(Decoded.doc) # <<>>
        THEN ret = "validation_error" /\ doc = EmptyDocument
        ELSE ret = "nil" /\ doc = Decoded.doc

\* A text with a task alone was parsed with Validate = true.
C20_Witness ==
    /\ pc = "parsed"
    /\ opts.Validate
    /\ ret = "validation_error"
    /\ Len(Decoded.doc.Elements) = 1
    /\ Decoded.doc.Elements[1].Type = "task"

\* The issues hold one with this kind, field and message.
Reported(element, field, message) ==
    \E i \in 1..Len(issues) : issues[i] = Issue(element, field, message)

\* The positions of the pieces of a text written under one of the tags.
Tagged(ps, tags) == {i \in 1..Len(ps) : ps[i].k = "elem" /\ ps[i].tag \in tags}

ReferenceTags == {"tool-response", "tool-result", "tool-error"}

\* The unknown-id and the mismatched-tool issue for a reference r.
UnknownID(r) ==
    Reported(TypeOfTag(r.tag), "id", "missing tool-request for id " \o r.attrs.id)
Mismatched(r) ==
    Reported(TypeOfTag(r.tag), "name", "mismatched tool for id " \o r.attrs.id)

\* The first tool request of the text with the id of r.
FirstRequest(ps, r) ==
    ps[NthOf({i \in Tagged(ps, {"tool-request"}) : ps[i].attrs.id = r.attrs.id}, 1)]

\* C17 as stated (tool cross-reference check): for a tool-response, a
\* tool-result or a tool-error r with a non-empty id, an issue names the id
\* when no tool-request has it; a mismatched-tool issue is reported when a
\* tool-request has the id and r's non-empty name differs from that
\* request's name; the two are never reported together for the same r.
C17_ToolReference_Stated ==
    pc = "validated" =>
        \A i \in Tagged(input, ReferenceTags) :
            LET r == input[i]
                reqs == {j \in Tagged(input, {"tool-request"}) :
                            input[j].attrs.id = r.attrs.id}
            IN r.attrs.id # "" =>
                /\ reqs = {} => UnknownID(r)
                /\ (r.attrs.name # ""
                        /\ \E j \in reqs : input[j].attrs.name # r.attrs.name)
                    => Mismatched(r)
                /\ ~(UnknownID(r) /\ Mismatched(r))

\* C17 (tool cross-reference check), amended: the mismatched-tool issue is
\* reported when the first tool-request with the id has a non-empty name
\* that differs from r's non-empty name.
C17_ToolReference ==
    pc = "validated" =>
        \A i \in Tagged(input, ReferenceTags) :
            LET r == input[i]
                reqs == {j \in Tagged(input, {"tool-request"}) :
                            input[j].attrs.id = r.attrs.id}
            IN r.attrs.id # "" =>
                /\ reqs = {} => UnknownID(r)
                /\ (reqs # {} /\ r.attrs.name # ""
                        /\ FirstRequest(input, r).attrs.name # ""
                        /\ FirstRequest(input, r).attrs.name # r.attrs.name)
                    => Mismatched(r)
                /\ ~(UnknownID(r) /\ Mismatched(r))

\* A text with a request, a response that names another tool for its id and
\* a result with an id no request has was validated.
C17_Witness ==
    /\ pc = "validated"
    /\ \E i \in Tagged(input, {"tool-response"}) : Mismatched(input[i])
    /\ \E i \in Tagged(input, {"tool-result"}) : UnknownID(input[i])

\* The number of handles of a type and an issue for it.
Recorded(t, k) == HandleCount(doc, t) = k
Flagged(t) == \E i \in 1..Len(issues) : issues[i].Element = t

\* C18 (singleton sections): when the text has k >= 2 meta tags, role tags
\* or output-schema tags, the parser records k handles of that kind and
\* Validate reports a violation for that kind.
C18_SingletonSections ==
    pc = "validated" =>
        \A tag \in {"meta", "role", "output-schema"} :
            LET k == Cardinality(Tagged(input, {tag}))
            IN k >= 2 => Recorded(TypeOfTag(tag), k) /\ Flagged(TypeOfTag(tag))

\* The issue, when the condition holds.
When(cond, issue) == IF cond THEN {issue} ELSE {}

\* The meta fields a parsed text ends up with: those of its last meta tag.
LastMeta(ps) ==
    IF Tagged(ps, {"meta"}) = {} THEN NoAttrs
    ELSE ps[NthOf(Tagged(ps, {"meta"}), Cardinality(Tagged(ps, {"meta"})))].attrs

\* The names the tool definitions of a text declare.
Declared(ps) == {ps[i].attrs.name : i \in Tagged(ps, {"tool-definition"})} \ {""}

\* The rules a text violates, each as the issue that reports it: the section
\* rules, the meta fields, and the rules on tool definitions, tool requests
\* and the references to them.
Violations(ps) ==
    LET n(tag) == Cardinality(Tagged(ps, {tag}))
        defs == Tagged(ps, {"tool-definition"})
        reqs == Tagged(ps, {"tool-request"})
        refs == Tagged(ps, ReferenceTags)
    IN When(n("meta") = 0, Issue("meta", "", "missing meta"))
       \cup When(n("role") = 0, Issue("role", "", "missing role"))
       \cup When(n("task") = 0, Issue("task", "", "missing task"))
       \cup When(n("meta") >= 2, Issue("meta", "", "duplicate meta"))
       \cup When(n("role") >= 2, Issue("role", "", "duplicate role"))
       \cup When(LastMeta(ps).id = "", Issue("meta", "id", "missing id"))
       \cup When(LastMeta(ps).version = "", Issue("meta", "version", "missing version"))
       \cup When(LastMeta(ps).owner = "", Issue("meta", "owner", "missing owner"))
       \cup {Issue("tool_definition", "name", "duplicate name " \o ps[j].attrs.name) :
                j \in {j \in defs : \E i \in defs :
                            i < j /\ ps[i].attrs.name = ps[j].attrs.name}}
       \cup {Issue("tool_request", "name", "missing name") :
                j \in {j \in reqs : ps[j].attrs.name = ""}}
       \cup {Issue("tool_request", "name", "unknown tool-definition " \o ps[j].attrs.name) :
                j \in {j \in reqs : ps[j].attrs.name \notin Declared(ps) \cup {""}}}
       \cup {Issue("tool_request", "id",
                   "duplicate id " \o ps[j].attrs.id \o " (also used by "
                        \o FirstRequest(ps, ps[j]).attrs.name \o ")") :
                j \in {j \in reqs : \E i \in reqs :
                            i < j /\ ps[i].attrs.id = ps[j].attrs.id}}
       \cup {Issue(TypeOfTag(ps[j].tag), "name",
                   "unknown tool-definition " \o ps[j].attrs.name) :
                j \in {j \in refs : ps[j].attrs.name \notin Declared(ps) \cup {""}}}
       \cup {Issue(TypeOfTag(ps[j].tag), "id",
                   "missing tool-request for id " \o ps[j].attrs.id) :
                j \in {j \in refs : \A i \in reqs : ps[i].attrs.id # ps[j].attrs.id}}
       \cup {Issue(TypeOfTag(ps[j].tag), "name",
                   "mismatched tool for id " \o ps[j].attrs.id) :
                j \in {j \in refs :
                        /\ \E i \in reqs : ps[i].attrs.id = ps[j].attrs.id
                        /\ FirstRequest(ps, ps[j]).attrs.name
                                \notin {"", ps[j].attrs.name}}}

OneOfEach(ps) ==
    /\ Len(ps) = 3
    /\ \A tag \in {"meta", "role", "task"} : Cardinality(Tagged(ps, {tag})) = 1

\* A pass has completed in which the role handle, and no other handle, was
\* removed.
RoleRemoved ==
    /\ ret = "nil"
    /\ Len(begin) = 3
    /\ Len(doc.Elements) = 2
    /\ \A i \in 1..2 : doc.Elements[i].Type # "role" /\ doc.Elements[i].ID \in IDSet(snapshot)

\* C15 (role-removal scenario): a Document with one complete meta, one role
\* and one task validates with no issue; after the role handle is removed
\* with Mutator.Remove in a Mutate pass, Validate reports exactly one issue,
\* which names the role as missing.
C15_RoleRemoval ==
    (pc = "validated" /\ OneOfEach(input)) =>
        /\ ret = "none" => issues = <<>>
        /\ RoleRemoved => issues = <<Issue("role", "", "missing role")>>

\* The role was removed in a pass and the Document validated again.
C15_Witness ==
    /\ pc = "validated"
    /\ OneOfEach(input)
    /\ RoleRemoved
    /\ Len(issues) = 1

\* ------------------------------------------------- claims on a Mutate pass

\* The handle of this visit is no longer in the handle list.
Retired == el.ID \notin IDSet(doc.Elements)

\* C30 (Remove is idempotent for a retired handle): a Mutator.Remove with a
\* handle whose ID is no longer in the handle list changes nothing of the
\* Document: no typed collection, not the handle list, no other handle's
\* payload.
C30_RemoveRetiredNoOp ==
    [][(VisitRemove /\ Retired) => doc' = doc]_vars

\* C29 (visitor error after a structural change): when the visitor has
\* called Remove on its handle and then returns an error, Mutate returns
\* that error and leaves every remaining handle's Index as a re-index
\* would set it, within its typed collection.
C29_ReindexOnError ==
    [][(VisitReturnErr /\ modified /\ Retired) =>
          /\ ret' = "err"
          /\ doc'.Elements = reindex(doc').Elements
          /\ \A i \in 1..Len(doc'.Elements) :
                TypedHandle(doc'.Elements[i]) => InRange(doc', doc'.Elements[i])]_vars

\* C26 (payload seen during a pass): at the start of each visit of a Mutate
\* pass, the snapshot handle the visitor is called with names, through its
\* Index, its own payload, so that payloadFor, Remove and ReplaceBody in
\* that visit reach that payload, whatever earlier visits of the pass
\* removed or inserted.
C26_PayloadOfVisit ==
    (pc = "visiting" /\ nops = 0 /\ TypedHandle(el) /\ ~Retired) =>
        OwnPayload(doc, el)

\* ------------------------------------------------------ claims on parsing

\* The raw texts of the unrecognized elements of a text, as consumeRaw
\* keeps them.
UnknownRaw(ps) ==
    {consumeRaw(ps[i]) : i \in {j \in ElemIdx(ps) : TypeOfTag(ps[j].tag) = "unknown"}}

\* C23 (fidelity off): after a parse with PreserveWhitespace = false every
\* handle's Leading and Trailing are empty, and encoding the Document, with
\* PreserveWS = true as well, writes elements only: one chunk at most for
\* each element of the text, and no whitespace run and no comment of it.
C23_FidelityOff ==
    (pc \in {"parsed", "encoded"} /\ ~opts.PreserveWhitespace) =>
        /\ \A i \in 1..Len(doc.Elements) :
              doc.Elements[i].Leading = <<>> /\ doc.Elements[i].Trailing = <<>>
        /\ pc = "encoded" =>
              /\ ~out.err
              /\ Len(out.chunks) <= Cardinality(ElemIdx(input))
              /\ \A i \in 1..Len(out.chunks) :
                    out.chunks[i].k = "raw" => out.chunks[i].text \in UnknownRaw(input)

\* A text with a comment before an element and whitespace after it was
\* parsed with PreserveWhitespace = false and encoded with PreserveWS = true.
C23_Witness ==
    /\ pc = "encoded"
    /\ ~opts.PreserveWhitespace
    /\ opts.PreserveWS
    /\ opts.PreserveOrder
    /\ Len(input) = 3
    /\ input[1].k = "comment"
    /\ input[2].k = "elem"
    /\ input[3].k = "chardata"
    /\ Len(out.chunks) = 1

\* ------------------------------------ claims on inserts and a later read

\* The positions in what was written of the elements with a tag.
ChunkIdx(cs, tag) == {i \in 1..Len(cs) : cs[i].k = "elem" /\ cs[i].tag = tag}

\* The payload was made by an insert of a pass: the payloads of the text
\* were made with the handles 1..Len(input), those of a Document built from
\* its fields with none.
Inserted(p) == p.src > Len(input)

\* The task payloads the passes inserted follow those that were there.
InsertedLast(d) ==
    \A i, j \in 1..Len(SliceSeq(d, "Tasks")) :
        (Inserted(SliceSeq(d, "Tasks")[i]) /\ i < j) =>
            Inserted(SliceSeq(d, "Tasks")[j])

\* C21 (canonical-order insert): after a pass in which a task was inserted
\* with InsertTaskAfter, encoding in canonical order writes the tasks in
\* one run, the inserted task right after the task that was last before,
\* and before every element of a kind that canonically follows tasks.
C21_CanonicalInsert ==
    (pc = "encoded" /\ ~opts.PreserveOrder) =>
        LET ts == SliceSeq(doc, "Tasks")
            T == ChunkIdx(out.chunks, "task")
            first == Len(out.chunks) - Cardinality(ChunkIdx(out.chunks, "hint"))
                        - Len(ts) + 1
        IN /\ ~out.err
           /\ T = first..(first + Len(ts) - 1)
           /\ \A i \in 1..Len(ts) : out.chunks[first + i - 1].body = ts[i].Body
           /\ InsertedLast(doc)
           /\ \A j \in ChunkIdx(out.chunks, "hint") : \A i \in T : i < j

\* A text of a task and a hint was parsed, a task inserted after the task
\* in the pass, and the Document encoded in canonical order.
C21_Witness ==
    /\ pc = "encoded"
    /\ ~opts.PreserveOrder
    /\ Len(input) = 2
    /\ Len(doc.Elements) = 3
    /\ doc.Elements[1].Type = "task"
    /\ doc.Elements[2].Type = "task"
    /\ doc.Elements[3].Type = "hint"
    /\ Inserted(SliceSeq(doc, "Tasks")[2])
    /\ Len(out.chunks) = 3

\* The Document was built from its fields, without a handle list.
BuiltFromFields == input = <<>> /\ begin # <<>>

\* The handles Walk and an encoding in preserved order go through reach
\* every payload of the Document: the role and each payload of each slice.
EveryPayloadReached(d) ==
    LET hs == resolveOrder(d).els
    IN /\ d.Role # "" => \E i \in 1..Len(hs) : hs[i].Type = "role"
       /\ \A sl \in DOMAIN d.Slices : \A k \in 1..Len(d.Slices[sl]) :
            \E i \in 1..Len(hs) :
                SliceOf(hs[i].Type) = sl /\ hs[i].Index = k - 1

\* C28 (mutating a Document without a handle list): after a Mutate pass on
\* a Document built from its fields in which the visitor called
\* InsertTaskAfter, Walk visits every payload and an encoding in preserved
\* order writes every payload, and each handle of the list names the
\* payload inserted with it.
C28_FieldsDocumentInsert ==
    (BuiltFromFields /\ ret = "nil" /\ doc.Elements # <<>>) =>
        /\ pc = "walked" =>
              /\ visited = IDsOf(resolveOrder(doc).els)
              /\ EveryPayloadReached(doc)
        /\ (pc = "encoded" /\ opts.PreserveOrder) =>
              /\ ~out.err
              /\ Cardinality(ChunkIdx(out.chunks, "task")) = Len(SliceSeq(doc, "Tasks"))
              /\ Cardinality(ChunkIdx(out.chunks, "hint")) = Len(SliceSeq(doc, "Hints"))
              /\ doc.Role # "" => ChunkIdx(out.chunks, "role") # {}
        /\ pc = "idle" =>
              \A i \in 1..Len(doc.Elements) : OwnPayload(doc, doc.Elements[i])

\* --------------------------------------------- claims on the payload view

\* The payload has the field of the handle's kind set (payloadFor sets one
\* field at most).
TypedPayload(d, h) == payloadFor(d, h).field = PayloadField(h.Type)

\* C22 (typed payload view): for every handle that Mutate hands to its
\* visitor, and every handle that Walk and ElementByID take from
\* resolveOrder, the ElementPayload that goes with it has exactly one field
\* set, the one of the handle's kind (Raw for an unknown handle).
C22_TypedPayloadView ==
    /\ (pc = "visiting" /\ nops = 0) => TypedPayload(doc, el)
    /\ pc = "walked" =>
          \A i \in 1..Len(resolveOrder(doc).els) :
              TypedPayload(doc, resolveOrder(doc).els[i])

\* C27 (direct payload edits): a body the visitor writes through the
\* payload it was handed, with MarkModified, is the body the Document holds
\* for that handle, for singleton kinds and for kinds kept in typed slices.
C27_DirectPayloadEdit ==
    [][VisitEdit => BodyOf(doc', el) \in EditBodies]_vars

\* ------------------------------------------------------ claims on DumpFile

\* C24 (atomic dump): DumpFile writes to the temporary path and only then
\* renames it onto the destination: the destination changes in the rename
\* alone, to the whole encoded text; when encoding fails DumpFile returns
\* the error, and whenever it returns an error the destination is as it
\* was, not made and not changed.
C24_AtomicDump ==
    [][/\ fs'[Path] # fs[Path] =>
            /\ pc = "closed"
            /\ ret' = "nil"
            /\ ~encodeDocument(doc, opts).err
            /\ fs'[Path] = File(encodeDocument(doc, opts).chunks)
       /\ (pc = "created" /\ pc' # pc /\ encodeDocument(doc, opts).err) =>
            pc' = "dumped" /\ ret' = "err"
       /\ (pc' = "dumped" /\ pc # "dumped" /\ ret' # "nil") =>
            fs'[Path] = fs[Path]]_vars

\* Encoding failed after the temporary file was made: DumpFile has
\* returned the error, the destination holds what it held before.
C24_Witness ==
    /\ pc = "dumped"
    /\ ret = "err"
    /\ encodeDocument(doc, opts).err
    /\ fs[Path] = OldFile
    /\ fs[tmpPath(Path)].exists

\* ------------------------------------------------- claims on the registry

\* A from->to pair, as it is compared: in lower case.
PairOf(from, to) == <<ToLower(from), ToLower(to)>>

\* The pairs of the converters the goroutines register.
Pairs == {PairOf(c.from, c.to) : c \in Converters}

\* The Register calls for a pair that have returned, and those of them
\* that returned nil.
Returned(pair) ==
    {p \in Procs : /\ calls[p].op = "Register"
                   /\ calls[p].pc = "done"
                   /\ calls[p].conv # NilConverter
                   /\ PairOf(calls[p].conv.from, calls[p].conv.to) = pair}

Won(pair) == {p \in Returned(pair) : calls[p].ret = "nil"}

\* C25 (thread-safe registry): under every interleaving of Register, List
\* and Convert calls, for each from->to pair (in lower case) exactly one
\* of the Register calls that have returned has succeeded, every other one
\* has returned ConverterExistsError, the map holds the converter of the
\* call that succeeded, and a Convert for the pair has gone to that
\* converter or reported that there is none.
C25_RegistryThreadSafe ==
    \A pair \in Pairs :
        /\ Returned(pair) # {} => Cardinality(Won(pair)) = 1
        /\ \A p \in Returned(pair) \ Won(pair) : calls[p].ret = "exists"
        /\ \A p \in Won(pair) :
              /\ converterKey(pair[1], pair[2]) \in DOMAIN reg.converters
              /\ reg.converters[converterKey(pair[1], pair[2])] = calls[p].conv
        /\ \A p \in Procs :
              (/\ calls[p].op = "Convert"
               /\ calls[p].pc = "done"
               /\ PairOf(calls[p].ask[1], calls[p].ask[2]) = pair) =>
                  \/ calls[p].ret = "no converter"
                  \/ \E q \in Won(pair) : calls[p].ret = calls[q].conv.id

====
